---- MODULE Spec2Model ----
(***************************************************************************)
(* Host-side orchestration of the rocSPARSE conversion entry points:       *)
(*   rocsparse_nnz_impl, rocsparse_nnz_compress_template,                  *)
(*   rocsparse_csx2dense_impl / rocsparse_csx2dense_template.              *)
(* A behaviour is one call: the initial state holds the caller's handle,   *)
(* arguments, buffers and the device runtime's answers; the action of the  *)
(* entry point runs the whole call and leaves the returned status, the     *)
(* memory after the stream has drained and the device operations issued.   *)
(***************************************************************************)
EXTENDS Integers, Sequences, FiniteSets, TLC

VARIABLES pc, entry, handle, args, mem, runtime, status, trace

vars == <<pc, entry, handle, args, mem, runtime, status, trace>>

(***************************************************************************)
(* Bounds of the enumeration.                                              *)
(***************************************************************************)
MaxDim == 2
MaxRowLen == 1
MaxNnz == 130
MaxPermNnz == 2
MaxLanes == 3
MaxGeamNnz == 2
MaxBsrNnz == 2
MaxBlockDim == 2
MaxStreamCount == 2
MaxGridRows == 17

(***************************************************************************)
(* Program constants.                                                      *)
(***************************************************************************)
SizeofInt == 4
block_size == 1024
WAVEFRONT_SIZE == 64
NROWS_PER_BLOCK == 16

NULL == "nullptr"
POISON == -99
PAD == 7

rocsparse_direction_row == "row"
rocsparse_direction_column == "column"
rocsparse_matrix_type_general == "general"
rocsparse_pointer_mode_host == "host"
rocsparse_pointer_mode_device == "device"

Directions == {rocsparse_direction_row, rocsparse_direction_column, "invalid_direction"}
MatrixTypes == {rocsparse_matrix_type_general, "symmetric"}
PointerModes == {rocsparse_pointer_mode_host, rocsparse_pointer_mode_device}
BufferSizes == {0, 4, 8, 12}
HipErrorStatus == {"memory_error", "internal_error"}

(***************************************************************************)
(* Helpers.                                                                *)
(***************************************************************************)
RECURSIVE SumSeq(_, _)
SumSeq(s, k) == IF k <= 0 THEN 0 ELSE s[k] + SumSeq(s, k - 1)

Abs(x) == IF x < 0 THEN -x ELSE x

\* integer division of C (rocsparse_int), divisor positive
CDiv(a, b) == IF a >= 0 THEN a \div b ELSE -((-a) \div b)

\* one device-runtime operation, or host store, issued by a call
Op(name, dst, bytes) ==
    [op |-> name, dst |-> dst, bytes |-> bytes, seg |-> 0, grid |-> 0, ok |-> TRUE]

\* a kernel launch with its segment size and grid size
Launch(name, dst, seg, grid) ==
    [op |-> name, dst |-> dst, bytes |-> 0, seg |-> seg, grid |-> grid, ok |-> TRUE]

\* the running state of a call: status "running" until a return statement
Start(m0) == [status |-> "running", trace |-> <<>>, mem |-> m0, ncalls |-> 0]

Return(S, st) == IF S.status = "running" THEN [S EXCEPT !.status = st] ELSE S

\* RETURN_IF_HIP_ERROR(call): the call is issued; if the runtime reports an
\* error the function returns the translated status, else its effect (m1)
\* takes place and execution goes on.
HipCall(S, rt, o, m1) ==
    IF S.status # "running" THEN S
    ELSE IF rt.fail_at = S.ncalls + 1
         THEN [S EXCEPT !.status = rt.fail_st,
                        !.trace = Append(@, [o EXCEPT !.ok = FALSE]),
                        !.ncalls = @ + 1]
         ELSE [S EXCEPT !.trace = Append(@, o), !.mem = m1, !.ncalls = @ + 1]

\* an operation that returns nothing to look at (kernel launch, host load or store)
Issue(S, o, m1) ==
    IF S.status # "running" THEN S
    ELSE [S EXCEPT !.trace = Append(@, o), !.mem = m1]

\* a device-runtime call whose returned error is not looked at: when the
\* runtime rejects it its effect (m1) does not take place and execution goes on
HipCallUnchecked(S, rt, o, m1) ==
    IF S.status # "running" THEN S
    ELSE IF rt.fail_at = S.ncalls + 1
         THEN [S EXCEPT !.trace = Append(@, [o EXCEPT !.ok = FALSE]), !.ncalls = @ + 1]
         ELSE [S EXCEPT !.trace = Append(@, o), !.mem = m1, !.ncalls = @ + 1]

\* the host reads a field through a pointer argument
HostLoad(S, what) == Issue(S, Op("host_load", what, 0), S.mem)

\* one statement of a straight-line body: the operation o, whether it stands
\* in RETURN_IF_HIP_ERROR (checked), and the location it sets to val when it
\* takes place (field "none": it sets nothing)
Checked(o, field, val) == [o |-> o, checked |-> TRUE, field |-> field, val |-> val]
Unchecked(o, field, val) == [o |-> o, checked |-> FALSE, field |-> field, val |-> val]

\* executes one statement: HipCall for a checked one, Issue for the others
Exec(S, rt, st) ==
    LET m1 == IF st.field = "none" THEN S.mem ELSE [S.mem EXCEPT ![st.field] = st.val]
    IN IF st.checked THEN HipCall(S, rt, st.o, m1) ELSE Issue(S, st.o, m1)

\* executes the statements k.. of a body in order
RECURSIVE Run(_, _, _, _)
Run(S, rt, stmts, k) ==
    IF k > Len(stmts) THEN S ELSE Run(Exec(S, rt, stmts[k]), rt, stmts, k + 1)

(***************************************************************************)
(* rocsparse_nnz_impl                                                      *)
(***************************************************************************)
\* index of dense element (i, j), 0-based, column-major with leading dimension ld
DenseIdx(i, j, ld) == i + j * ld + 1

\* the counting pass of rocsparse_nnz_template: non-zeros per row / column
nnz_kernel(dir, m, n, A, ld, out) ==
    IF dir = rocsparse_direction_row
    THEN [k \in 1..Len(out) |->
            IF k <= m THEN Cardinality({j \in 0..(n - 1) : A[DenseIdx(k - 1, j, ld)] # 0})
            ELSE out[k]]
    ELSE [k \in 1..Len(out) |->
            IF k <= n THEN Cardinality({i \in 0..(m - 1) : A[DenseIdx(i, k - 1, ld)] # 0})
            ELSE out[k]]

\* rocprim::reduce with plus over the first size elements, initial value 0
rocprim_reduce(in, size) == SumSeq(in, size)

nnz_mn_swapped(a) == IF a.dir = rocsparse_direction_row THEN a.n ELSE a.m

nnz_mn(a) == IF a.dir = rocsparse_direction_row THEN a.m ELSE a.n

nnz_quick_return_always_memset(h, a, m0, rt) ==
    IF a.nnz_total # NULL
    THEN Return(HipCall(Start(m0), rt, Op("hipMemsetAsync", "nnz_total", SizeofInt),
                        [m0 EXCEPT !.nnz_total = 0]), "success")
    ELSE Return(Start(m0), "success")

nnz_quick_return(h, a, m0, rt) ==
    IF a.nnz_total # NULL
    THEN IF h.pointer_mode = rocsparse_pointer_mode_device
         THEN Return(HipCall(Start(m0), rt, Op("hipMemsetAsync", "nnz_total", SizeofInt),
                             [m0 EXCEPT !.nnz_total = 0]), "success")
         ELSE Return(Issue(Start(m0), Op("host_store", "nnz_total", SizeofInt),
                           [m0 EXCEPT !.nnz_total = 0]), "success")
    ELSE Return(Start(m0), "success")

\* temp_storage_ptr = d_nnz + 1: the byte offset in the buffer at which the
\* temporary storage handed to the reduction starts
nnz_temp_storage_offset == 1 * SizeofInt

\* the copy-out made synchronous in both pointer modes
nnz_copy_out_always_synchronous(h) == "hipMemcpy"

\* the copy-out of the total: asynchronous on the stream in device pointer
\* mode, synchronous to the host in host pointer mode
nnz_copy_out(h) ==
    IF h.pointer_mode = rocsparse_pointer_mode_device THEN "hipMemcpyAsync" ELSE "hipMemcpy"

nnz_count_and_reduce(h, a, m0, rt) ==
    LET mn     == nnz_mn(a)
        counts == nnz_kernel(a.dir, a.m, a.n, m0.A, a.ld, m0.nnz_per_row_columns)
        bytes  == rt.temp_bytes + SizeofInt
        borrow == h.buffer_size >= bytes
        d_nnz  == IF borrow THEN "handle_buffer" ELSE "d_nnz"
        total  == rocprim_reduce(counts, mn)
        copy   == nnz_copy_out(h)
        body   ==
            << Unchecked(Op("host_load", "descr->type", 0), "none", 0),
               Checked(Op("nnz_kernel", "nnz_per_row_columns", 0),
                       "nnz_per_row_columns", counts),
               Checked(Op("rocprim_reduce_query", "none", 0), "none", 0) >>
            \o (IF borrow THEN << >>
                ELSE << Checked(Op("hipMalloc", "d_nnz", bytes), "none", 0) >>)
            \o << Checked(Op("rocprim_reduce", d_nnz, bytes), "d_nnz", total),
                  Checked(Op(copy, "nnz_total", SizeofInt), "nnz_total", total) >>
            \o (IF borrow THEN << >>
                ELSE << Checked(Op("hipFree", "d_nnz", 0), "none", 0) >>)
    IN Return(Run(Start(m0), rt, body, 1), "success")

nnz_impl_size_before_direction(hp, h, a, m0, rt) ==
    IF hp = NULL THEN Return(Start(m0), "invalid_handle")
    ELSE IF (a.m < 0) \/ (a.n < 0) \/ (a.ld < a.m)
    THEN Return(Start(m0), "invalid_size")
    ELSE IF a.dir # rocsparse_direction_row /\ a.dir # rocsparse_direction_column
    THEN Return(Start(m0), "invalid_value")
    ELSE IF a.m = 0 \/ a.n = 0 THEN nnz_quick_return(h, a, m0, rt)
    ELSE IF a.descr = NULL \/ a.nnz_per_row_columns = NULL \/ a.A = NULL
            \/ a.nnz_total = NULL
    THEN Return(Start(m0), "invalid_pointer")
    ELSE IF m0.descr.type # rocsparse_matrix_type_general
    THEN Return(HostLoad(Start(m0), "descr->type"), "not_implemented")
    ELSE nnz_count_and_reduce(h, a, m0, rt)

nnz_impl(hp, h, a, m0, rt) ==
    IF hp = NULL THEN Return(Start(m0), "invalid_handle")
    ELSE IF a.dir # rocsparse_direction_row /\ a.dir # rocsparse_direction_column
    THEN Return(Start(m0), "invalid_value")
    ELSE IF (a.m < 0) \/ (a.n < 0) \/ (a.ld < a.m)
    THEN Return(Start(m0), "invalid_size")
    ELSE IF a.m = 0 \/ a.n = 0 THEN nnz_quick_return(h, a, m0, rt)
    ELSE IF a.descr = NULL \/ a.nnz_per_row_columns = NULL \/ a.A = NULL
            \/ a.nnz_total = NULL
    THEN Return(Start(m0), "invalid_pointer")
    ELSE IF m0.descr.type # rocsparse_matrix_type_general
    THEN Return(HostLoad(Start(m0), "descr->type"), "not_implemented")
    ELSE nnz_count_and_reduce(h, a, m0, rt)

rocsparse_nnz_impl ==
    /\ pc = "call"
    /\ entry = "nnz"
    /\ LET r == nnz_impl(args.handle, handle, args, mem, runtime)
       IN /\ status' = r.status
          /\ trace' = r.trace
          /\ mem' = r.mem
    /\ pc' = "returned"
    /\ UNCHANGED <<entry, handle, args, runtime>>

(***************************************************************************)
(* rocsparse_nnz_compress_template                                         *)
(***************************************************************************)
segment_size_inclusive_thresholds(W, mean) ==
    IF mean <= 4 THEN 2
    ELSE IF mean <= 8 THEN 4
    ELSE IF mean <= 16 THEN 8
    ELSE IF mean <= 32 THEN 16
    ELSE IF W = 32 THEN 32
    ELSE IF mean <= 64 THEN 32
    ELSE 64

\* segment size of the kernel variant launched for wavefront size W (32 or 64)
segment_size(W, mean) ==
    IF mean < 4 THEN 2
    ELSE IF mean < 8 THEN 4
    ELSE IF mean < 16 THEN 8
    ELSE IF mean < 32 THEN 16
    ELSE IF W = 32 THEN 32
    ELSE IF mean < 64 THEN 32
    ELSE 64

segments_per_block(seg) == block_size \div seg

\* the grid size rounded down instead of up
grid_size_rounded_down(m, seg) == m \div segments_per_block(seg)

grid_size(m, seg) == (m + segments_per_block(seg) - 1) \div segments_per_block(seg)

wavefront_supported_any(W) == TRUE

wavefront_supported(W) == W = 32 \/ W = 64

\* nnz_compress_kernel: each row covered by the grid gets the number of its
\* entries whose magnitude is greater than tol
nnz_compress_kernel(m, base, val, row_ptr, out, tol, seg, grid) ==
    [k \in 1..Len(out) |->
        IF k <= m /\ k <= grid * segments_per_block(seg)
        THEN Cardinality({p \in (row_ptr[k] - base + 1)..(row_ptr[k + 1] - base) :
                             Abs(val[p]) > tol})
        ELSE out[k]]

nnz_compress_reduce_size_short(a) == a.m - 1

nnz_compress_reduce_size(a) == a.m

nnz_compress_quick_return(h, a, m0, rt) ==
    IF a.nnz_C # NULL
    THEN IF h.pointer_mode = rocsparse_pointer_mode_device
         THEN Return(HipCall(Start(m0), rt, Op("hipMemsetAsync", "nnz_C", SizeofInt),
                             [m0 EXCEPT !.nnz_C = 0]), "success")
         ELSE Return(Issue(Start(m0), Op("host_store", "nnz_C", SizeofInt),
                           [m0 EXCEPT !.nnz_C = 0]), "success")
    ELSE Return(Start(m0), "success")

nnz_compress_count_and_reduce(h, a, m0, rt) ==
    LET nnz_A  == m0.csr_row_ptr_A[a.m + 1]
        mean_nnz_per_row == CDiv(nnz_A, a.m)
        W      == h.wavefront_size
        seg    == segment_size(W, mean_nnz_per_row)
        grid   == grid_size(a.m, seg)
        counts == nnz_compress_kernel(a.m, m0.descr.base, m0.csr_val_A, m0.csr_row_ptr_A,
                                      m0.nnz_per_row, a.tol, seg, grid)
        host   == h.pointer_mode = rocsparse_pointer_mode_host
        dnnz_C == IF host THEN "dnnz_C" ELSE "nnz_C"
        bytes  == rt.temp_bytes
        borrow == h.buffer_size >= bytes
        total  == rocprim_reduce(counts, nnz_compress_reduce_size(a))
        read   == << Checked(Op("hipMemcpy", "nnz_A", SizeofInt), "none", 0) >>
        body   ==
            << Unchecked(Op("host_load", "descr_A->base", 0), "none", 0),
               Unchecked(Launch("nnz_compress_kernel", "nnz_per_row", seg, grid),
                         "nnz_per_row", counts) >>
            \o (IF host THEN << Checked(Op("hipMalloc", "dnnz_C", SizeofInt), "none", 0) >>
                ELSE << >>)
            \o << Checked(Op("rocprim_reduce_query", "none", 0), "none", 0) >>
            \o (IF borrow THEN << >>
                ELSE << Checked(Op("hipMalloc", "temp_storage", bytes), "none", 0) >>)
            \o << Checked(Op("rocprim_reduce", dnnz_C, bytes), dnnz_C, total) >>
            \o (IF host
                THEN << Checked(Op("hipMemcpy", "nnz_C", SizeofInt), "nnz_C", total),
                        Checked(Op("hipFree", "dnnz_C", 0), "none", 0) >>
                ELSE << >>)
            \o (IF borrow THEN << >>
                ELSE << Checked(Op("hipFree", "temp_storage", 0), "none", 0) >>)
    IN  IF ~wavefront_supported(W)
        THEN Return(Run(Start(m0), rt, read, 1), "arch_mismatch")
        ELSE Return(Run(Start(m0), rt, read \o body, 1), "success")

nnz_compress_template_quick_return_first(hp, h, a, m0, rt) ==
    IF hp = NULL THEN Return(Start(m0), "invalid_handle")
    ELSE IF a.descr_A = NULL THEN Return(Start(m0), "invalid_pointer")
    ELSE IF a.m < 0 THEN Return(Start(m0), "invalid_size")
    ELSE IF a.m = 0 THEN nnz_compress_quick_return(h, a, m0, rt)
    ELSE IF a.tol < 0 THEN Return(Start(m0), "invalid_value")
    ELSE IF a.csr_val_A = NULL THEN Return(Start(m0), "invalid_pointer")
    ELSE IF a.csr_row_ptr_A = NULL THEN Return(Start(m0), "invalid_pointer")
    ELSE IF a.nnz_per_row = NULL THEN Return(Start(m0), "invalid_pointer")
    ELSE IF a.nnz_C = NULL THEN Return(Start(m0), "invalid_pointer")
    ELSE nnz_compress_count_and_reduce(h, a, m0, rt)

nnz_compress_template(hp, h, a, m0, rt) ==
    IF hp = NULL THEN Return(Start(m0), "invalid_handle")
    ELSE IF a.descr_A = NULL THEN Return(Start(m0), "invalid_pointer")
    ELSE IF a.m < 0 THEN Return(Start(m0), "invalid_size")
    ELSE IF a.tol < 0 THEN Return(Start(m0), "invalid_value")
    ELSE IF a.m = 0 THEN nnz_compress_quick_return(h, a, m0, rt)
    ELSE IF a.csr_val_A = NULL THEN Return(Start(m0), "invalid_pointer")
    ELSE IF a.csr_row_ptr_A = NULL THEN Return(Start(m0), "invalid_pointer")
    ELSE IF a.nnz_per_row = NULL THEN Return(Start(m0), "invalid_pointer")
    ELSE IF a.nnz_C = NULL THEN Return(Start(m0), "invalid_pointer")
    ELSE nnz_compress_count_and_reduce(h, a, m0, rt)

rocsparse_nnz_compress_template ==
    /\ pc = "call"
    /\ entry = "nnz_compress"
    /\ LET r == nnz_compress_template(args.handle, handle, args, mem, runtime)
       IN /\ status' = r.status
          /\ trace' = r.trace
          /\ mem' = r.mem
    /\ pc' = "returned"
    /\ UNCHANGED <<entry, handle, args, runtime>>

(***************************************************************************)
(* rocsparse_csx2dense_impl and rocsparse_csx2dense_template               *)
(* (entry "csr2dense": DIRA = row, entry "csc2dense": DIRA = column)       *)
(***************************************************************************)
\* what evaluating descr->base on a null descr can do: fault, or go on
UBOutcomes == {"fault", "continue"}

\* the zero-fill with the pitch as its width: lda elements in each column
hipMemset2DAsync_pitch_wide(A, lda, m, n) ==
    [k \in 1..Len(A) |->
        IF \E i \in 0..(lda - 1), j \in 0..(n - 1) : k = DenseIdx(i, j, lda)
        THEN 0 ELSE A[k]]

\* hipMemset2DAsync(A, lda * sizeof(T), 0, m * sizeof(T), n, stream)
hipMemset2DAsync(A, lda, m, n) ==
    [k \in 1..Len(A) |->
        IF \E i \in 0..(m - 1), j \in 0..(n - 1) : k = DenseIdx(i, j, lda)
        THEN 0 ELSE A[k]]

csx2dense_blocks(major) == (major - 1) \div NROWS_PER_BLOCK + 1

\* csr2dense_kernel / csc2dense_kernel: every stored entry of a row (column)
\* covered by the grid is written to its dense coordinate
csx2dense_kernel(dirA, base, m, n, val, ptr, ind, A, ld, blocks) ==
    LET major == IF dirA = rocsparse_direction_row THEN m ELSE n
        Dst(r, p) == IF dirA = rocsparse_direction_row
                     THEN DenseIdx(r - 1, ind[p] - base, ld)
                     ELSE DenseIdx(ind[p] - base, r - 1, ld)
        Stored == {rp \in (1..major) \X (1..Len(val)) :
                      /\ rp[1] <= blocks * NROWS_PER_BLOCK
                      /\ ptr[rp[1]] - base < rp[2]
                      /\ rp[2] <= ptr[rp[1] + 1] - base}
    IN [k \in 1..Len(A) |->
          IF \E rp \in Stored : Dst(rp[1], rp[2]) = k
          THEN val[(CHOOSE rp \in Stored : Dst(rp[1], rp[2]) = k)[2]]
          ELSE A[k]]

csx2dense_template(S, dirA, a, rt) ==
    IF a.m = 0 \/ a.n = 0 THEN Return(S, "success")
    ELSE LET m0     == S.mem
             blocks == csx2dense_blocks(IF dirA = rocsparse_direction_row
                                        THEN a.m ELSE a.n)
             s0     == HostLoad(S, "descr->base")
             s1     == Issue(s0, Launch(IF dirA = rocsparse_direction_row
                                        THEN "csr2dense_kernel" ELSE "csc2dense_kernel",
                                        "A", WAVEFRONT_SIZE, blocks),
                             [m0 EXCEPT !.A =
                                 csx2dense_kernel(dirA, m0.descr.base, a.m, a.n,
                                                  m0.csx_val, m0.csx_row_col_ptr,
                                                  m0.csx_col_row_ind, @, a.lda, blocks)])
         IN Return(s1, "success")

\* the checks of rocsparse_csx2dense_impl that follow the logging
csx2dense_checks_quick_return_last(S, dirA, a, rt) ==
    IF (a.m < 0) \/ (a.n < 0) \/ (a.lda < a.m) THEN Return(S, "invalid_size")
    ELSE IF a.descr = NULL \/ a.A = NULL \/ a.csx_row_col_ptr = NULL
            \/ a.csx_col_row_ind = NULL \/ a.csx_val = NULL
    THEN Return(S, "invalid_pointer")
    ELSE IF a.m = 0 \/ a.n = 0 THEN Return(S, "success")
    ELSE IF S.mem.descr.type # rocsparse_matrix_type_general
    THEN Return(HostLoad(S, "descr->type"), "not_implemented")
    ELSE LET s0 == HostLoad(S, "descr->type")
             s1 == HipCallUnchecked(s0, rt, Op("hipMemset2DAsync", "A", a.m * a.n),
                        [s0.mem EXCEPT !.A = hipMemset2DAsync(@, a.lda, a.m, a.n)])
         IN csx2dense_template(s1, dirA, a, rt)

csx2dense_checks_no_n_check(S, dirA, a, rt) ==
    IF (a.m < 0) \/ (a.lda < a.m) THEN Return(S, "invalid_size")
    ELSE IF a.m = 0 \/ a.n <= 0 THEN Return(S, "success")
    ELSE IF a.descr = NULL \/ a.A = NULL \/ a.csx_row_col_ptr = NULL
            \/ a.csx_col_row_ind = NULL \/ a.csx_val = NULL
    THEN Return(S, "invalid_pointer")
    ELSE IF S.mem.descr.type # rocsparse_matrix_type_general
    THEN Return(HostLoad(S, "descr->type"), "not_implemented")
    ELSE LET s0 == HostLoad(S, "descr->type")
             s1 == HipCallUnchecked(s0, rt, Op("hipMemset2DAsync", "A", a.m * a.n),
                        [s0.mem EXCEPT !.A = hipMemset2DAsync(@, a.lda, a.m, a.n)])
         IN csx2dense_template(s1, dirA, a, rt)

csx2dense_checks(S, dirA, a, rt) ==
    IF (a.m < 0) \/ (a.n < 0) \/ (a.lda < a.m) THEN Return(S, "invalid_size")
    ELSE IF a.m = 0 \/ a.n = 0 THEN Return(S, "success")
    ELSE IF a.descr = NULL \/ a.A = NULL \/ a.csx_row_col_ptr = NULL
            \/ a.csx_col_row_ind = NULL \/ a.csx_val = NULL
    THEN Return(S, "invalid_pointer")
    ELSE IF S.mem.descr.type # rocsparse_matrix_type_general
    THEN Return(HostLoad(S, "descr->type"), "not_implemented")
    ELSE LET s0 == HostLoad(S, "descr->type")
             s1 == HipCallUnchecked(s0, rt, Op("hipMemset2DAsync", "A", a.m * a.n),
                        [s0.mem EXCEPT !.A = hipMemset2DAsync(@, a.lda, a.m, a.n)])
         IN csx2dense_template(s1, dirA, a, rt)

\* the whole call; ub is what the load of descr->base for log_bench does
\* when descr is null
csx2dense_impl(hp, dirA, a, m0, rt, ub) ==
    IF hp = NULL THEN Return(Start(m0), "invalid_handle")
    ELSE LET s0 == HostLoad(Start(m0), "descr->base")
         IN IF a.descr = NULL /\ ub = "fault" THEN Return(s0, "fault")
            ELSE csx2dense_checks(s0, dirA, a, rt)

rocsparse_csx2dense_impl ==
    /\ pc = "call"
    /\ entry \in {"csr2dense", "csc2dense"}
    /\ \E ub \in UBOutcomes :
         LET dirA == IF entry = "csr2dense" THEN rocsparse_direction_row
                     ELSE rocsparse_direction_column
             r    == csx2dense_impl(args.handle, dirA, args, mem, runtime, ub)
         IN /\ status' = r.status
            /\ trace' = r.trace
            /\ mem' = r.mem
            /\ pc' = IF r.status = "fault" THEN "faulted" ELSE "returned"
    /\ UNCHANGED <<entry, handle, args, runtime>>

(***************************************************************************)
(* Argument validation of rocsparse_csrgeam_nnz, rocsparse_csrgeam,        *)
(* rocsparse_csr2bsr_nnz and rocsparse_csr2bsr, as fixed by the library's  *)
(* tests (testing_csrgeam_bad_arg, testing_csrgeam, testing_csr2bsr_bad_arg,*)
(* testing_csr2bsr).  The tests fix the status of each check but not the   *)
(* order of the checks after the handle check, so a call on which several  *)
(* checks fire may return the status of any of them.                       *)
(***************************************************************************)
CsrgeamEntries == {"csrgeam_nnz", "csrgeam"}
Csr2bsrEntries == {"csr2bsr_nnz", "csr2bsr"}

\* the scalar output of an entry point ("none": it has none)
ScalarOutput(e) ==
    IF e = "nnz" THEN "nnz_total"
    ELSE IF e \in {"nnz_compress", "csrgeam_nnz"} THEN "nnz_C"
    ELSE IF e = "csr2bsr_nnz" THEN "bsr_nnzb"
    ELSE "none"

\* the size check with the entry counts left out
NegativeSize_dimensions_only(e, a) == a.m < 0 \/ a.n < 0

\* the size check rejecting block_dim == 0 as well
NegativeSize_block_dim_nonpositive(e, a) ==
    IF e \in CsrgeamEntries THEN a.m < 0 \/ a.n < 0 \/ a.nnz_A < 0 \/ a.nnz_B < 0
    ELSE a.m < 0 \/ a.n < 0 \/ a.block_dim <= 0

NegativeSize(e, a) ==
    IF e \in CsrgeamEntries THEN a.m < 0 \/ a.n < 0 \/ a.nnz_A < 0 \/ a.nnz_B < 0
    ELSE a.m < 0 \/ a.n < 0 \/ a.block_dim < 0

ZeroSize(e, a) ==
    /\ ~NegativeSize(e, a)
    /\ IF e \in CsrgeamEntries THEN a.m = 0 \/ a.n = 0
       ELSE a.m = 0 \/ a.n = 0 \/ a.block_dim = 0

\* the checks with only the row direction accepted
FiredChecks_direction_row_only(e, a) ==
    (IF a.null # "none" THEN {"invalid_pointer"} ELSE {})
    \cup (IF NegativeSize(e, a) THEN {"invalid_size"} ELSE {})
    \cup (IF e \in Csr2bsrEntries /\ a.dir # rocsparse_direction_row
          THEN {"invalid_value"} ELSE {})
    \cup (IF ZeroSize(e, a) THEN {"success"} ELSE {})

\* statuses of the checks that fire on the arguments
FiredChecks(e, a) ==
    (IF a.null # "none" THEN {"invalid_pointer"} ELSE {})
    \cup (IF NegativeSize(e, a) THEN {"invalid_size"} ELSE {})
    \cup (IF e \in Csr2bsrEntries /\ a.dir \notin {rocsparse_direction_row,
                                                  rocsparse_direction_column}
          THEN {"invalid_value"} ELSE {})
    \cup (IF ZeroSize(e, a) THEN {"success"} ELSE {})

\* the trivial success on an empty matrix: the scalar output, if the entry
\* point has one and it is given, is set to 0 through the route of the
\* pointer mode; for block_dim == 0 alone the tests do not say whether it is
\* written (write)
size_quick_return(e, h, a, m0, rt, write) ==
    IF ScalarOutput(e) # "none" /\ a.null # ScalarOutput(e)
       /\ (write \/ a.m = 0 \/ a.n = 0)
    THEN IF h.pointer_mode = rocsparse_pointer_mode_device
         THEN Return(HipCall(Start(m0), rt, Op("hipMemsetAsync", ScalarOutput(e), SizeofInt),
                             [m0 EXCEPT !.scalar = 0]), "success")
         ELSE Return(Issue(Start(m0), Op("host_store", ScalarOutput(e), SizeofInt),
                           [m0 EXCEPT !.scalar = 0]), "success")
    ELSE Return(Start(m0), "success")

size_checked_entry(e, hp, h, a, m0, rt, st, write) ==
    IF hp = NULL THEN Return(Start(m0), "invalid_handle")
    ELSE IF st = "success" THEN size_quick_return(e, h, a, m0, rt, write)
    ELSE Return(Start(m0), st)

SizeCheckedCall(e) ==
    /\ pc = "call"
    /\ entry = e
    /\ \E st \in (IF args.handle = NULL THEN {"invalid_handle"}
                  ELSE FiredChecks(e, args)), write \in BOOLEAN :
         LET r == size_checked_entry(e, args.handle, handle, args, mem, runtime, st, write)
         IN /\ status' = r.status
            /\ trace' = r.trace
            /\ mem' = r.mem
    /\ pc' = "returned"
    /\ UNCHANGED <<entry, handle, args, runtime>>

(***************************************************************************)
(* rocsparse_csrgeam_nnz and rocsparse_csrgeam on valid arguments:         *)
(* C = alpha * A + beta * B in two phases.  Phase 1 merges the sorted      *)
(* column indices of corresponding rows of A and B, counts the distinct    *)
(* columns of each row and accumulates the counts into the row pointers of *)
(* C; phase 2 merges again and writes columns and values into the rows     *)
(* that phase 1 laid out.                                                  *)
(***************************************************************************)
\* the stored column index taken as it is
csrgeam_column_raw(col, base) == col

\* the zero-based column of a stored column index
csrgeam_column(col, base) == col - base

\* positions lo..hi of buffer b (SubSeq that is empty for hi < lo)
Slice(b, lo, hi) == [k \in 1..(IF hi < lo THEN 0 ELSE hi - lo + 1) |-> b[lo + k - 1]]

\* the positions (1-based, into col_ind and val) of row i (0-based)
csr_row_begin(row_ptr, base, i) == row_ptr[i + 1] - base + 1
csr_row_end(row_ptr, base, i) == row_ptr[i + 2] - base

\* the merge of two rows given by their stored column indices ca, cb from
\* positions ka, kb on: one entry per distinct column, with the positions
\* within the rows of the operands that hold it (0: absent)
RECURSIVE csrgeam_merge(_, _, _, _, _, _)
csrgeam_merge(ca, ka, baseA, cb, kb, baseB) ==
    IF ka > Len(ca) /\ kb > Len(cb) THEN <<>>
    ELSE IF kb > Len(cb)
            \/ (ka <= Len(ca)
                /\ csrgeam_column(ca[ka], baseA) < csrgeam_column(cb[kb], baseB))
    THEN <<[col |-> csrgeam_column(ca[ka], baseA), a |-> ka, b |-> 0]>>
         \o csrgeam_merge(ca, ka + 1, baseA, cb, kb, baseB)
    ELSE IF ka > Len(ca)
            \/ csrgeam_column(cb[kb], baseB) < csrgeam_column(ca[ka], baseA)
    THEN <<[col |-> csrgeam_column(cb[kb], baseB), a |-> 0, b |-> kb]>>
         \o csrgeam_merge(ca, ka, baseA, cb, kb + 1, baseB)
    ELSE <<[col |-> csrgeam_column(ca[ka], baseA), a |-> ka, b |-> kb]>>
         \o csrgeam_merge(ca, ka + 1, baseA, cb, kb + 1, baseB)

\* the merge of row i of A and B held in memory m0
csrgeam_merge_row(a, m0, i) ==
    csrgeam_merge(Slice(m0.csr_col_ind_A, csr_row_begin(m0.csr_row_ptr_A, a.baseA, i),
                        csr_row_end(m0.csr_row_ptr_A, a.baseA, i)), 1, a.baseA,
                  Slice(m0.csr_col_ind_B, csr_row_begin(m0.csr_row_ptr_B, a.baseB, i),
                        csr_row_end(m0.csr_row_ptr_B, a.baseB, i)), 1, a.baseB)

\* phase 1: the row pointers of C
csrgeam_nnz_row_ptr(a, m0) ==
    LET counts == [i \in 1..a.m |-> Len(csrgeam_merge_row(a, m0, i - 1))]
    IN [k \in 1..(a.m + 1) |-> a.baseC + SumSeq(counts, k - 1)]

\* phase 1: row pointers set, nnz_C = csr_row_ptr_C[m] - baseC reported by
\* the route of the pointer mode
csrgeam_nnz_core(h, a, m0, rt) ==
    LET rp == csrgeam_nnz_row_ptr(a, m0)
        m1 == [m0 EXCEPT !.csr_row_ptr_C = rp]
        m2 == [m1 EXCEPT !.scalar = rp[a.m + 1] - a.baseC]
    IN Return(Issue(Issue(Start(m0), Launch("csrgeam_nnz_kernel", "csr_row_ptr_C", 0, a.m), m1),
                    Op(IF h.pointer_mode = rocsparse_pointer_mode_device
                       THEN "device_store" ELSE "host_store", "nnz_C", SizeofInt), m2),
              "success")

\* the scalars with their operands exchanged
csrgeam_value_swapped(alpha, va, beta, vb) == beta * va + alpha * vb

\* the value of an entry of C
csrgeam_value(alpha, va, beta, vb) == alpha * va + beta * vb

\* the scalar behind pointer p: the host value in host pointer mode, the
\* device-resident value in device pointer mode
csrgeam_scalar(h, a, m0, p) ==
    IF h.pointer_mode = rocsparse_pointer_mode_device
    THEN (IF p = "alpha" THEN m0.d_alpha ELSE m0.d_beta)
    ELSE (IF p = "alpha" THEN a.alpha ELSE a.beta)

\* the entry of C that phase 2 writes to position p of csr_col_ind_C and
\* csr_val_C: the row that csr_row_ptr_C lays out over p, and within it the
\* merged entry of that rank (hit FALSE: no row covers p)
csrgeam_entry_at(h, a, m0, p) ==
    LET rows == {i \in 0..(a.m - 1) :
                    /\ csr_row_begin(m0.csr_row_ptr_C, a.baseC, i) <= p
                    /\ p <= csr_row_end(m0.csr_row_ptr_C, a.baseC, i)}
    IN IF rows = {} THEN [hit |-> FALSE, col |-> 0, val |-> 0]
       ELSE LET i == CHOOSE i \in rows : TRUE
                e == csrgeam_merge_row(a, m0, i)[p - csr_row_begin(m0.csr_row_ptr_C, a.baseC, i) + 1]
                ba == csr_row_begin(m0.csr_row_ptr_A, a.baseA, i) - 1
                bb == csr_row_begin(m0.csr_row_ptr_B, a.baseB, i) - 1
            IN [hit |-> TRUE, col |-> e.col + a.baseC,
                val |-> csrgeam_value(csrgeam_scalar(h, a, m0, "alpha"),
                                      IF e.a = 0 THEN 0 ELSE m0.csr_val_A[ba + e.a],
                                      csrgeam_scalar(h, a, m0, "beta"),
                                      IF e.b = 0 THEN 0 ELSE m0.csr_val_B[bb + e.b])]

\* phase 2: columns and values of C
csrgeam_core(h, a, m0, rt) ==
    LET ent == [p \in 1..Len(m0.csr_col_ind_C) |-> csrgeam_entry_at(h, a, m0, p)]
        m1 == [m0 EXCEPT
                 !.csr_col_ind_C = [p \in 1..Len(m0.csr_col_ind_C) |->
                     IF ent[p].hit THEN ent[p].col ELSE m0.csr_col_ind_C[p]],
                 !.csr_val_C = [p \in 1..Len(m0.csr_val_C) |->
                     IF ent[p].hit THEN ent[p].val ELSE m0.csr_val_C[p]]]
    IN Return(Issue(Start(m0), Launch("csrgeam_fill_kernel", "csr_val_C", 0, a.m), m1),
              "success")

\* a call on which no check fires runs the phase of the entry point
CsrgeamCall(e) ==
    /\ pc = "call"
    /\ entry = e
    /\ args.handle # NULL
    /\ FiredChecks(e, args) = {}
    /\ LET r == IF e = "csrgeam_nnz" THEN csrgeam_nnz_core(handle, args, mem, runtime)
                ELSE csrgeam_core(handle, args, mem, runtime)
       IN /\ status' = r.status
          /\ trace' = r.trace
          /\ mem' = r.mem
    /\ pc' = "returned"
    /\ UNCHANGED <<entry, handle, args, runtime>>

\* testing_csrgeam: after rocsparse_csrgeam_nnz has succeeded the arrays of C
\* are allocated with nnz_C entries (the model adds one guard entry behind
\* them) and rocsparse_csrgeam is called with the same matrices
testing_csrgeam ==
    /\ pc = "returned"
    /\ entry = "csrgeam_nnz"
    /\ args.handle # NULL
    /\ FiredChecks(entry, args) = {}
    /\ status = "success"
    /\ entry' = "csrgeam"
    /\ pc' = "call"
    /\ status' = "pending"
    /\ trace' = <<>>
    /\ mem' = [mem EXCEPT !.csr_col_ind_C = [p \in 1..(mem.scalar + 1) |-> POISON],
                          !.csr_val_C = [p \in 1..(mem.scalar + 1) |-> POISON]]
    /\ UNCHANGED <<handle, args, runtime>>

(***************************************************************************)
(* rocsparse_csr2bsr_nnz, rocsparse_csr2bsr, rocsparse_bsr2csr and         *)
(* rocsparse_csr2csr_compress on valid arguments.  A block is a            *)
(* block_dim x block_dim tile; its cells are stored row-major or           *)
(* column-major by the direction.                                          *)
(***************************************************************************)
\* the number of whole blocks only
bsr_blocks_truncated(x, bd) == x \div bd

\* number of blocks covering x rows or columns
bsr_blocks(x, bd) == (x + bd - 1) \div bd

\* the row (0-based) of a CSR matrix with m rows that holds position p (1-based)
csr_row_of(row_ptr, base, m, p) ==
    CHOOSE i \in 0..(m - 1) :
        csr_row_begin(row_ptr, base, i) <= p /\ p <= csr_row_end(row_ptr, base, i)

\* phase 1: the block columns populated in block row I
csr2bsr_block_cols(a, m0, I) ==
    {(m0.csr_col_ind[p] - a.csr_base) \div a.block_dim :
        p \in UNION {csr_row_begin(m0.csr_row_ptr, a.csr_base, i)
                         ..csr_row_end(m0.csr_row_ptr, a.csr_base, i) :
                     i \in {x \in 0..(a.m - 1) : x \div a.block_dim = I}}}

\* phase 1: the block row pointers
csr2bsr_nnz_row_ptr(a, m0) ==
    LET mb == bsr_blocks(a.m, a.block_dim)
        counts == [I \in 1..mb |-> Cardinality(csr2bsr_block_cols(a, m0, I - 1))]
    IN [k \in 1..(mb + 1) |-> a.bsr_base + SumSeq(counts, k - 1)]

\* phase 1: block row pointers set, nnzb reported by the route of the pointer mode
csr2bsr_nnz_core(h, a, m0, rt) ==
    LET rp == csr2bsr_nnz_row_ptr(a, m0)
        m1 == [m0 EXCEPT !.bsr_row_ptr = rp]
        m2 == [m1 EXCEPT !.scalar = rp[Len(rp)] - a.bsr_base]
    IN Return(Issue(Issue(Start(m0), Launch("csr2bsr_nnz_kernel", "bsr_row_ptr", 0, Len(rp) - 1),
                          m1),
                    Op(IF h.pointer_mode = rocsparse_pointer_mode_device
                       THEN "device_store" ELSE "host_store", "bsr_nnzb", SizeofInt), m2),
              "success")

\* the populated blocks <<I, J>>
csr2bsr_block_set(a, m0) ==
    UNION {{<<I, J>> : J \in csr2bsr_block_cols(a, m0, I)} :
           I \in 0..(bsr_blocks(a.m, a.block_dim) - 1)}

\* index (0-based) of block <<I, J>> in the BSR arrays laid out by bsr_row_ptr
csr2bsr_block_index(a, m0, I, J) ==
    m0.bsr_row_ptr[I + 1] - a.bsr_base
    + Cardinality({x \in csr2bsr_block_cols(a, m0, I) : x < J})

\* the offset of cell (r, c) written row-major whatever the direction
csr2bsr_offset_row_major(dir, r, c, bd) == r * bd + c

\* the offset of cell (r, c) within a block as csr2bsr stores it
csr2bsr_offset(dir, r, c, bd) ==
    IF dir = rocsparse_direction_row THEN r * bd + c ELSE c * bd + r

\* phase 2: the position (1-based) in bsr_val of the CSR entry at position p
csr2bsr_dest(a, m0, p) ==
    LET i == csr_row_of(m0.csr_row_ptr, a.csr_base, a.m, p)
        j == m0.csr_col_ind[p] - a.csr_base
        bd == a.block_dim
    IN csr2bsr_block_index(a, m0, i \div bd, j \div bd) * bd * bd
       + csr2bsr_offset(a.dir, i % bd, j % bd, bd) + 1

\* phase 2: block columns, and values in their block-relative offsets with
\* the other cells set to zero
csr2bsr_core(h, a, m0, rt) ==
    LET m1 == [m0 EXCEPT
                 !.bsr_col_ind = [k \in 1..Len(m0.bsr_col_ind) |->
                     LET hits == {b \in csr2bsr_block_set(a, m0) :
                                     csr2bsr_block_index(a, m0, b[1], b[2]) = k - 1}
                     IN IF hits = {} THEN m0.bsr_col_ind[k]
                        ELSE (CHOOSE b \in hits : TRUE)[2] + a.bsr_base],
                 !.bsr_val = [o \in 1..Len(m0.bsr_val) |->
                     LET src == {p \in 1..Len(m0.csr_val) : csr2bsr_dest(a, m0, p) = o}
                         nnzb == m0.bsr_row_ptr[Len(m0.bsr_row_ptr)] - a.bsr_base
                     IN IF o > nnzb * a.block_dim * a.block_dim THEN m0.bsr_val[o]
                        ELSE IF src = {} THEN 0
                        ELSE m0.csr_val[CHOOSE p \in src : TRUE]]]
    IN Return(Issue(Start(m0), Launch("csr2bsr_kernel", "bsr_val", 0, Len(m0.bsr_row_ptr) - 1),
                    m1),
              "success")

\* a call on which no check fires runs the phase of the entry point
Csr2bsrCall(e) ==
    /\ pc = "call"
    /\ entry = e
    /\ args.handle # NULL
    /\ FiredChecks(e, args) = {}
    /\ LET r == IF e = "csr2bsr_nnz" THEN csr2bsr_nnz_core(handle, args, mem, runtime)
                ELSE csr2bsr_core(handle, args, mem, runtime)
       IN /\ status' = r.status
          /\ trace' = r.trace
          /\ mem' = r.mem
    /\ pc' = "returned"
    /\ UNCHANGED <<entry, handle, args, runtime>>

\* the offset of cell (r, c) within a block as bsr2csr reads it
bsr2csr_offset(dir, r, c, bd) ==
    IF dir = rocsparse_direction_row THEN r * bd + c ELSE c * bd + r

\* bsr2csr: the position (0-based) at which row i of the CSR result starts;
\* every block of a block row gives block_dim entries to each of its rows
bsr2csr_row_start(a, m0, i) ==
    LET bd == a.block_dim
        mb == Len(m0.bsr_row_ptr) - 1
    IN IF i >= mb * bd THEN (m0.bsr_row_ptr[mb + 1] - a.bsr_base) * bd * bd
       ELSE (m0.bsr_row_ptr[i \div bd + 1] - a.bsr_base) * bd * bd
            + (i % bd) * (m0.bsr_row_ptr[i \div bd + 2] - m0.bsr_row_ptr[i \div bd + 1]) * bd

\* bsr2csr: column and value of the entry at position q (0-based) of the result
bsr2csr_entry(a, m0, q) ==
    LET bd == a.block_dim
        mb == Len(m0.bsr_row_ptr) - 1
        i == CHOOSE x \in 0..(mb * bd - 1) :
                 bsr2csr_row_start(a, m0, x) <= q /\ q < bsr2csr_row_start(a, m0, x + 1)
        t == q - bsr2csr_row_start(a, m0, i)
        k == m0.bsr_row_ptr[i \div bd + 1] - a.bsr_base + t \div bd
    IN [col |-> (m0.bsr_col_ind[k + 1] - a.bsr_base) * bd + (t % bd) + a.csr_base,
        val |-> m0.bsr_val[k * bd * bd + bsr2csr_offset(a.dir, i % bd, t % bd, bd) + 1]]

bsr2csr_core(h, a, m0, rt) ==
    LET ent == [q \in 1..Len(m0.gold_col_ind_A) |-> bsr2csr_entry(a, m0, q - 1)]
        m1 == [m0 EXCEPT
                 !.gold_row_ptr_A = [k \in 1..Len(m0.gold_row_ptr_A) |->
                     a.csr_base + bsr2csr_row_start(a, m0, k - 1)],
                 !.gold_col_ind_A = [q \in 1..Len(m0.gold_col_ind_A) |-> ent[q].col],
                 !.gold_val_A = [q \in 1..Len(m0.gold_val_A) |-> ent[q].val]]
    IN Return(Issue(Start(m0), Launch("bsr2csr_kernel", "csr_val", 0, Len(m0.bsr_row_ptr) - 1),
                    m1),
              "success")

rocsparse_bsr2csr ==
    /\ pc = "call"
    /\ entry = "bsr2csr"
    /\ LET r == bsr2csr_core(handle, args, mem, runtime)
       IN /\ status' = r.status
          /\ trace' = r.trace
          /\ mem' = r.mem
    /\ pc' = "returned"
    /\ UNCHANGED <<entry, handle, args, runtime>>

\* csr2csr_compress: the entries of magnitude greater than tol, kept in
\* order, laid out by the per-row counts of nnz_compress
csr2csr_compress_core(h, a, m0, rt, tol) ==
    LET kept == {p \in 1..Len(m0.gold_val_A) : Abs(m0.gold_val_A[p]) > tol}
        src(q) == CHOOSE p \in kept : Cardinality({x \in kept : x < p}) = q - 1
        m1 == [m0 EXCEPT
                 !.gold_row_ptr_C = [k \in 1..Len(m0.gold_row_ptr_C) |->
                     a.csr_base + SumSeq(m0.nnz_per_row_gold, k - 1)],
                 !.gold_col_ind_C = [q \in 1..Len(m0.gold_col_ind_C) |->
                     IF q <= Cardinality(kept) THEN m0.gold_col_ind_A[src(q)]
                     ELSE m0.gold_col_ind_C[q]],
                 !.gold_val_C = [q \in 1..Len(m0.gold_val_C) |->
                     IF q <= Cardinality(kept) THEN m0.gold_val_A[src(q)]
                     ELSE m0.gold_val_C[q]]]
    IN Return(Issue(Start(m0), Launch("csr2csr_compress_kernel", "csr_val_C", 0,
                                      Len(m0.nnz_per_row_gold)), m1),
              "success")

rocsparse_csr2csr_compress ==
    /\ pc = "call"
    /\ entry = "csr2csr_compress"
    /\ LET r == csr2csr_compress_core(handle, args, mem, runtime, 0)
       IN /\ status' = r.status
          /\ trace' = r.trace
          /\ mem' = r.mem
    /\ pc' = "returned"
    /\ UNCHANGED <<entry, handle, args, runtime>>

\* testing_csr2bsr between the calls of its round trip: after csr2bsr_nnz the
\* block arrays are allocated from nnzb (the model adds one guard entry
\* behind each) and csr2bsr is called in device
\* pointer mode; after csr2bsr the arrays of the CSR matrix to compare are
\* allocated and bsr2csr is called in host pointer mode; after bsr2csr the
\* rows are counted by rocsparse_nnz_compress with tolerance 0, the compressed
\* arrays are allocated and csr2csr_compress is called
testing_csr2bsr ==
    /\ pc = "returned"
    /\ status = "success"
    /\ args.handle # NULL
    /\ \/ /\ entry = "csr2bsr_nnz"
          /\ FiredChecks(entry, args) = {}
          /\ entry' = "csr2bsr"
          /\ handle' = [handle EXCEPT !.pointer_mode = rocsparse_pointer_mode_device]
          /\ mem' = [mem EXCEPT
                       !.bsr_col_ind = [k \in 1..(mem.scalar + 1) |-> POISON],
                       !.bsr_val = [o \in 1..(mem.scalar * args.block_dim * args.block_dim + 1)
                                       |-> POISON]]
       \/ /\ entry = "csr2bsr"
          /\ FiredChecks(entry, args) = {}
          /\ entry' = "bsr2csr"
          /\ handle' = [handle EXCEPT !.pointer_mode = rocsparse_pointer_mode_host]
          /\ mem' = [mem EXCEPT
                       !.gold_row_ptr_A =
                           [k \in 1..(bsr_blocks(args.m, args.block_dim) * args.block_dim + 1)
                               |-> POISON],
                       !.gold_col_ind_A =
                           [q \in 1..(mem.scalar * args.block_dim * args.block_dim) |-> POISON],
                       !.gold_val_A =
                           [q \in 1..(mem.scalar * args.block_dim * args.block_dim) |-> POISON]]
       \/ /\ entry = "bsr2csr"
          /\ entry' = "csr2csr_compress"
          /\ handle' = handle
          /\ LET rows == bsr_blocks(args.m, args.block_dim) * args.block_dim
                 per_row == nnz_compress_kernel(rows, args.csr_base, mem.gold_val_A,
                                                mem.gold_row_ptr_A,
                                                [k \in 1..rows |-> POISON], 0, 1, rows)
                 total == rocprim_reduce(per_row, rows)
             IN mem' = [mem EXCEPT
                          !.nnz_per_row_gold = per_row,
                          !.nnz_gold_C = total,
                          !.gold_row_ptr_C = [k \in 1..(rows + 1) |-> POISON],
                          !.gold_col_ind_C = [q \in 1..total |-> POISON],
                          !.gold_val_C = [q \in 1..total |-> POISON]]
    /\ pc' = "call"
    /\ status' = "pending"
    /\ trace' = <<>>
    /\ UNCHANGED <<args, runtime>>

rocsparse_csrgeam_nnz == SizeCheckedCall("csrgeam_nnz") \/ CsrgeamCall("csrgeam_nnz")
rocsparse_csrgeam == SizeCheckedCall("csrgeam") \/ CsrgeamCall("csrgeam")
rocsparse_csr2bsr_nnz == SizeCheckedCall("csr2bsr_nnz") \/ Csr2bsrCall("csr2bsr_nnz")
rocsparse_csr2bsr == SizeCheckedCall("csr2bsr") \/ Csr2bsrCall("csr2bsr")

(***************************************************************************)
(* csr2csc_permute_kernel: one lane per global id; a lane loads map[gid],  *)
(* then stores out1[gid], then stores out2[gid].  Lanes interleave freely. *)
(* mem.lane is each lane's position, mem.idx its register idx, mem.reads   *)
(* and mem.writes the locations <<lane, array, index>> it has accessed.    *)
(***************************************************************************)
permute_source_gid(map, gid) == gid

\* rocsparse_int idx = map[gid]
permute_source(map, gid) == map[gid + 1]

permute_guard_inclusive(gid, nnz) == gid > nnz

\* if(gid >= nnz) return
permute_guard(gid, nnz) == gid >= nnz

\* the store scattered to the mapped index instead of the lane's own
permute_dest_scattered(gid, idx) == idx

\* out1[gid] = ..., out2[gid] = ...: a lane stores at its own global id
permute_dest(gid, idx) == gid

csr2csc_permute_lane(g, nnz, m0) ==
    IF m0.lane[g] = "start"
    THEN IF permute_guard(g, nnz) THEN [m0 EXCEPT !.lane[g] = "done"]
         ELSE [m0 EXCEPT !.lane[g] = "loaded",
                         !.idx[g] = permute_source(m0.map, g),
                         !.reads = @ \cup {<<g, "map", g>>}]
    ELSE IF m0.lane[g] = "loaded"
    THEN [m0 EXCEPT !.lane[g] = "stored1",
                    !.out1[permute_dest(g, m0.idx[g]) + 1] = m0.in1[m0.idx[g] + 1],
                    !.reads = @ \cup {<<g, "in1", m0.idx[g]>>},
                    !.writes = @ \cup {<<g, "out1", permute_dest(g, m0.idx[g])>>}]
    ELSE [m0 EXCEPT !.lane[g] = "done",
                    !.out2[permute_dest(g, m0.idx[g]) + 1] = m0.in2[m0.idx[g] + 1],
                    !.reads = @ \cup {<<g, "in2", m0.idx[g]>>},
                    !.writes = @ \cup {<<g, "out2", permute_dest(g, m0.idx[g])>>}]

csr2csc_permute_kernel ==
    /\ pc = "call"
    /\ entry = "csr2csc_permute"
    /\ \E g \in 0..(args.lanes - 1) :
         /\ mem.lane[g] # "done"
         /\ mem' = csr2csc_permute_lane(g, args.nnz, mem)
    /\ pc' = IF \A g \in 0..(args.lanes - 1) : mem'.lane[g] = "done"
             THEN "completed" ELSE "call"
    /\ UNCHANGED <<entry, handle, args, runtime, status, trace>>

(***************************************************************************)
(* Host pointer mode on a stream: the host thread issues the statements of *)
(* one call in order while the device runs the work queued on              *)
(* handle->stream in issue order.  mem.host is the next statement of the   *)
(* host, mem.queue the work still pending on handle->stream.  A location   *)
(* that has not been produced yet holds POISON.                            *)
(***************************************************************************)
StreamKinds == {"null_stream", "blocking", "non_blocking"}

StreamEntries == {"nnz_on_stream", "nnz_compress_on_stream"}

Enqueue(what) == [op |-> "enqueue", what |-> what]
Memcpy(what) == [op |-> "hipMemcpy", what |-> what]

\* the device operations of a call in host pointer mode, in program order
stream_program(e) ==
    IF e = "nnz_on_stream"
    THEN << Enqueue("nnz_kernel"), Enqueue("rocprim_reduce"), Memcpy("nnz_total") >>
    ELSE << Memcpy("nnz_A"), Enqueue("nnz_compress_kernel"), Enqueue("rocprim_reduce"),
            Memcpy("nnz_C") >>

\* hipMemcpy without a stream argument copies on the null stream; the null
\* stream is ordered after the work of every stream except those created
\* non-blocking
hipMemcpy_waits_for_always(kind) == TRUE

hipMemcpy_waits_for(kind) == kind # "non_blocking"

\* the effect of one piece of queued work
stream_work(what, a, m0) ==
    IF what = "csr_producer" THEN [m0 EXCEPT !.csr_row_ptr_m = a.nnz]
    ELSE IF what \in {"nnz_kernel", "nnz_compress_kernel"}
    THEN [m0 EXCEPT !.nnz_per_row = a.count]
    ELSE [m0 EXCEPT !.d_nnz = m0.nnz_per_row]

\* the host launches a kernel or a reduction on handle->stream and goes on
enqueue_on_stream ==
    /\ pc = "call"
    /\ entry \in StreamEntries
    /\ LET st == stream_program(entry)[mem.host]
       IN /\ st.op = "enqueue"
          /\ mem' = [mem EXCEPT !.queue = Append(@, st.what), !.host = @ + 1]
    /\ UNCHANGED <<pc, entry, handle, args, runtime, status, trace>>

\* the host copies one rocsparse_int from the device, synchronously
hipMemcpy_device_to_host ==
    /\ pc = "call"
    /\ entry \in StreamEntries
    /\ LET st == stream_program(entry)[mem.host]
           last == mem.host = Len(stream_program(entry))
       IN /\ st.op = "hipMemcpy"
          /\ hipMemcpy_waits_for(handle.stream) => mem.queue = << >>
          /\ mem' = IF st.what = "nnz_A"
                    THEN [mem EXCEPT !.nnz_A = mem.csr_row_ptr_m, !.host = @ + 1]
                    ELSE [mem EXCEPT !.total = mem.d_nnz, !.host = @ + 1]
          /\ pc' = IF last THEN "completed" ELSE "call"
          /\ status' = IF last THEN "success" ELSE status
    /\ UNCHANGED <<entry, handle, args, runtime, trace>>

\* the device runs the oldest work pending on handle->stream
stream_executes ==
    /\ entry \in StreamEntries
    /\ mem.queue # << >>
    /\ mem' = [stream_work(Head(mem.queue), args, mem) EXCEPT !.queue = Tail(mem.queue)]
    /\ UNCHANGED <<pc, entry, handle, args, runtime, status, trace>>

(***************************************************************************)
(* The calls enumerated: handle, arguments, buffers and runtime answers.   *)
(* Buffer contents, handle scratch sizes and runtime failures are          *)
(* enumerated for the calls that get as far as reading them.               *)
(***************************************************************************)
NoFail == [fail_at |-> 0, fail_st |-> "success", temp_bytes |-> 4]

Runtimes(maxcalls) ==
    {NoFail} \cup
    [fail_at : 1..maxcalls, fail_st : HipErrorStatus, temp_bytes : {4}]

NnzArgs ==
    [handle : {NULL, "handle"}, dir : Directions,
     m : (-1)..MaxDim, n : (-1)..MaxDim, ld : 0..(MaxDim + 1),
     descr : {NULL, "descr"}, A : {NULL, "A"},
     nnz_per_row_columns : {NULL, "nnz_per_row_columns"},
     nnz_total : {NULL, "nnz_total"}]

\* a call that passes every check of rocsparse_nnz_impl up to the pointer checks
NnzReadsBuffers(a) ==
    /\ a.handle # NULL /\ a.dir # "invalid_direction"
    /\ a.m >= 1 /\ a.n >= 1 /\ a.ld >= a.m
    /\ a.descr # NULL /\ a.A # NULL /\ a.nnz_per_row_columns # NULL /\ a.nnz_total # NULL

\* a call that gets as far as the quick return of rocsparse_nnz_impl
NnzReadsPointerMode(a) ==
    /\ a.handle # NULL /\ a.dir # "invalid_direction"
    /\ a.m >= 0 /\ a.n >= 0 /\ a.ld >= a.m

NoZeroEntry(A) == \A k \in 1..Len(A) : A[k] # 0

\* the handle: the pointer mode varies for the calls that read it, the
\* scratch buffer size for the calls on a matrix without zeros
NnzHandles(a, m0) ==
    [pointer_mode : IF NnzReadsPointerMode(a) THEN PointerModes
                    ELSE {rocsparse_pointer_mode_host},
     wavefront_size : {64},
     buffer_size : IF NnzReadsBuffers(a) /\ NoZeroEntry(m0.A)
                      /\ m0.descr.type = rocsparse_matrix_type_general
                   THEN BufferSizes ELSE {0}]

DenseLen == (MaxDim + 1) * MaxDim

\* the caller's dense buffer: entries of the m x n matrix in {0, 1}, the rest padding
DenseBuffers(m, n, ld) ==
    {[k \in 1..DenseLen |->
        IF \E p \in DOMAIN f : k = DenseIdx(p[1], p[2], ld)
        THEN f[CHOOSE p \in DOMAIN f : k = DenseIdx(p[1], p[2], ld)] ELSE PAD] :
     f \in [(0..(m - 1)) \X (0..(n - 1)) -> {0, 1}]}

\* the matrix type varies for the calls that reach the type check, the
\* matrix for those that pass it
NnzMem(a) ==
    [A : IF NnzReadsBuffers(a) THEN DenseBuffers(a.m, a.n, a.ld)
         ELSE {[k \in 1..DenseLen |-> PAD]},
     nnz_per_row_columns : {[k \in 1..MaxDim |-> POISON]},
     nnz_total : {POISON},
     d_nnz : {POISON},
     descr : IF a.descr = NULL THEN {[type |-> "none", base |-> 0]}
             ELSE {[type |-> rocsparse_matrix_type_general, base |-> 0]}]
    \cup
    (IF NnzReadsBuffers(a)
     THEN {[A |-> [k \in 1..DenseLen |-> PAD],
            nnz_per_row_columns |-> [k \in 1..MaxDim |-> POISON],
            nnz_total |-> POISON, d_nnz |-> POISON,
            descr |-> [type |-> "symmetric", base |-> 0]]}
     ELSE {})

\* runtime failures are injected into the calls on a matrix without zeros
NnzRuntimes(a, m0) ==
    IF NnzReadsBuffers(a)
    THEN IF NoZeroEntry(m0.A) /\ m0.descr.type = rocsparse_matrix_type_general
         THEN Runtimes(6) ELSE {NoFail}
    ELSE IF a.handle # NULL /\ a.nnz_total # NULL /\ (a.m = 0 \/ a.n = 0) THEN Runtimes(1)
    ELSE {NoFail}

InitNnz ==
    /\ entry = "nnz"
    /\ args \in NnzArgs
    /\ mem \in NnzMem(args)
    /\ handle \in NnzHandles(args, mem)
    /\ runtime \in NnzRuntimes(args, mem)

Tolerances == {-1, 0, 1, 2}
CsrValues == {0, -2}
WavefrontSizes == {16, 32, 64}

NnzCompressArgs ==
    [handle : {NULL, "handle"}, m : (-1)..MaxDim, descr_A : {NULL, "descr_A"},
     csr_val_A : {NULL, "csr_val_A"}, csr_row_ptr_A : {NULL, "csr_row_ptr_A"},
     nnz_per_row : {NULL, "nnz_per_row"}, nnz_C : {NULL, "nnz_C"}, tol : Tolerances]

NnzCompressReadsBuffers(a) ==
    /\ a.handle # NULL /\ a.descr_A # NULL /\ a.m >= 1 /\ a.tol >= 0
    /\ a.csr_val_A # NULL /\ a.csr_row_ptr_A # NULL /\ a.nnz_per_row # NULL
    /\ a.nnz_C # NULL

\* row pointer array of the CSR matrix with the row lengths lens and index base
RowPtr(lens, base) == [i \in 1..(Len(lens) + 1) |-> base + SumSeq(lens, i - 1)]

\* every CSR matrix with m rows of at most MaxRowLen entries
CsrMatrices(m, base) ==
    UNION {{[csr_row_ptr_A |-> RowPtr(lens, base), csr_val_A |-> v] :
                v \in [1..SumSeq(lens, m) -> CsrValues]} :
           lens \in [1..m -> 0..MaxRowLen]}

\* matrices of one or two long rows, to reach every kernel variant
WideCsrMatrices(m, base) ==
    IF m > 2 THEN {}
    ELSE {[csr_row_ptr_A |-> RowPtr(IF m = 1 THEN <<t>> ELSE <<t \div 3, t - (t \div 3)>>,
                                    base),
           csr_val_A |-> [k \in 1..t |-> IF k % 3 = 0 THEN 0 ELSE -2]] : t \in 0..MaxNnz}

EmptyCsr == [csr_row_ptr_A |-> <<0>>, csr_val_A |-> <<>>]

\* the long rows are given to the calls with tolerance 1
CsrBuffers(a, b) ==
    IF NnzCompressReadsBuffers(a)
    THEN CsrMatrices(a.m, b) \cup (IF a.tol = 1 THEN WideCsrMatrices(a.m, b) ELSE {})
    ELSE {EmptyCsr}

ShortCsr(c) == Len(c.csr_val_A) <= MaxDim * MaxRowLen

\* the descriptor's matrix type varies for the calls on a short matrix without zeros
CsrDescrTypes(a, c) ==
    IF a.descr_A = NULL THEN {"none"}
    ELSE IF NnzCompressReadsBuffers(a) /\ ShortCsr(c) /\ NoZeroEntry(c.csr_val_A)
    THEN MatrixTypes
    ELSE {rocsparse_matrix_type_general}

NnzCompressMem(a) ==
    UNION {UNION {{[csr_row_ptr_A |-> c.csr_row_ptr_A, csr_val_A |-> c.csr_val_A,
                    nnz_per_row |-> [k \in 1..MaxDim |-> POISON], nnz_C |-> POISON,
                    dnnz_C |-> POISON, descr |-> [type |-> ty, base |-> b]] :
                      ty \in CsrDescrTypes(a, c)} :
                  c \in CsrBuffers(a, b)} :
           b \in (IF NnzCompressReadsBuffers(a) THEN {0, 1} ELSE {0})}

\* the handle: the pointer mode varies for the calls that read it, the
\* wavefront size for those that read the matrix, the scratch buffer size
\* for those on a short matrix without zeros
NnzCompressHandles(a, m0) ==
    IF NnzCompressReadsBuffers(a)
    THEN {h \in [pointer_mode : PointerModes, wavefront_size : WavefrontSizes,
                 buffer_size : {0, 4}] :
            /\ h.buffer_size = 0
               \/ (h.wavefront_size = 64 /\ ShortCsr(m0) /\ NoZeroEntry(m0.csr_val_A))
            /\ ShortCsr(m0) \/ h.wavefront_size # 16}
    ELSE [pointer_mode : IF a.handle # NULL /\ a.descr_A # NULL /\ a.m = 0 /\ a.tol >= 0
                         THEN PointerModes ELSE {rocsparse_pointer_mode_host},
          wavefront_size : {64}, buffer_size : {0}]

\* runtime failures are injected into the calls on a matrix without zeros,
\* with tolerance 0 and a general descriptor of index base 0
NnzCompressRuntimes(a, m0) ==
    IF NnzCompressReadsBuffers(a)
    THEN IF ShortCsr(m0) /\ NoZeroEntry(m0.csr_val_A) /\ a.tol = 0
            /\ m0.descr = [type |-> rocsparse_matrix_type_general, base |-> 0]
         THEN Runtimes(8) ELSE {NoFail}
    ELSE IF a.handle # NULL /\ a.descr_A # NULL /\ a.m = 0 /\ a.tol >= 0 /\ a.nnz_C # NULL
         THEN Runtimes(1)
    ELSE {NoFail}

\* a matrix of MaxGridRows rows, more than one block of 64-lane segments
\* holds, each row with WAVEFRONT_SIZE entries
ManyRowsCsr ==
    [csr_row_ptr_A |-> [k \in 1..(MaxGridRows + 1) |-> WAVEFRONT_SIZE * (k - 1)],
     csr_val_A |-> [k \in 1..(MaxGridRows * WAVEFRONT_SIZE) |-> IF k % 3 = 0 THEN 0 ELSE -2]]

InitNnzCompressManyRows ==
    /\ args = [handle |-> "handle", m |-> MaxGridRows, descr_A |-> "descr_A",
               csr_val_A |-> "csr_val_A", csr_row_ptr_A |-> "csr_row_ptr_A",
               nnz_per_row |-> "nnz_per_row", nnz_C |-> "nnz_C", tol |-> 1]
    /\ mem = [csr_row_ptr_A |-> ManyRowsCsr.csr_row_ptr_A, csr_val_A |-> ManyRowsCsr.csr_val_A,
              nnz_per_row |-> [k \in 1..(MaxGridRows + 1) |-> POISON], nnz_C |-> POISON,
              dnnz_C |-> POISON,
              descr |-> [type |-> rocsparse_matrix_type_general, base |-> 0]]
    /\ handle \in [pointer_mode : PointerModes, wavefront_size : {32, 64}, buffer_size : {0}]
    /\ runtime = NoFail

InitNnzCompress ==
    /\ entry = "nnz_compress"
    /\ \/ /\ args \in NnzCompressArgs
          /\ mem \in NnzCompressMem(args)
          /\ handle \in NnzCompressHandles(args, mem)
          /\ runtime \in NnzCompressRuntimes(args, mem)
       \/ InitNnzCompressManyRows

CsxArgs ==
    [handle : {NULL, "handle"}, m : (-1)..MaxDim, n : (-1)..MaxDim, lda : 0..(MaxDim + 1),
     descr : {NULL, "descr"}, csx_val : {NULL, "csx_val"},
     csx_row_col_ptr : {NULL, "csx_row_col_ptr"},
     csx_col_row_ind : {NULL, "csx_col_row_ind"}, A : {NULL, "A"}]

CsxReadsBuffers(a) ==
    /\ a.handle # NULL /\ a.m >= 1 /\ a.n >= 1 /\ a.lda >= a.m
    /\ a.descr # NULL /\ a.A # NULL /\ a.csx_row_col_ptr # NULL
    /\ a.csx_col_row_ind # NULL /\ a.csx_val # NULL

\* the compressed arrays of the m x n matrix whose stored coordinates are P:
\* entries ordered by row then column (CSR) or by column then row (CSC), the
\* value of the entry at (i, j) is 1 + i + m * j
Compressed(dirA, P, m, n, base) ==
    LET Key(q)  == IF dirA = rocsparse_direction_row THEN q[1] * n + q[2]
                   ELSE q[2] * m + q[1]
        Major(q) == IF dirA = rocsparse_direction_row THEN q[1] ELSE q[2]
        Minor(q) == IF dirA = rocsparse_direction_row THEN q[2] ELSE q[1]
        Nth(k)  == CHOOSE q \in P : Cardinality({r \in P : Key(r) < Key(q)}) = k - 1
        major   == IF dirA = rocsparse_direction_row THEN m ELSE n
    IN [csx_row_col_ptr |->
            [r \in 1..(major + 1) |-> base + Cardinality({q \in P : Major(q) < r - 1})],
        csx_col_row_ind |-> [k \in 1..Cardinality(P) |-> base + Minor(Nth(k))],
        csx_val |-> [k \in 1..Cardinality(P) |-> 1 + Nth(k)[1] + m * Nth(k)[2]]]

\* the compressed arrays of the n x n identity matrix
CompressedIdentity(dirA, n, base) ==
    [Compressed(dirA, {<<i, i>> : i \in 0..(n - 1)}, n, n, base)
        EXCEPT !.csx_val = [k \in 1..n |-> 1]]

CsxMatrices(dirA, a, base) ==
    IF CsxReadsBuffers(a)
    THEN {Compressed(dirA, P, a.m, a.n, base) :
            P \in SUBSET ((0..(a.m - 1)) \X (0..(a.n - 1)))}
         \cup (IF a.m = a.n THEN {CompressedIdentity(dirA, a.n, base)} ELSE {})
    ELSE {[csx_row_col_ptr |-> <<0>>, csx_col_row_ind |-> <<>>, csx_val |-> <<>>]}

\* the matrix type varies for the calls on the empty matrix
CsxDescrTypes(a, c) ==
    IF a.descr = NULL THEN {"none"}
    ELSE IF CsxReadsBuffers(a) /\ Len(c.csx_val) = 0 THEN MatrixTypes
    ELSE {rocsparse_matrix_type_general}

CsxMem(dirA, a) ==
    UNION {UNION {{[A |-> [k \in 1..DenseLen |-> PAD], csx_val |-> c.csx_val,
                    csx_row_col_ptr |-> c.csx_row_col_ptr,
                    csx_col_row_ind |-> c.csx_col_row_ind,
                    descr |-> [type |-> ty, base |-> b]] :
                      ty \in CsxDescrTypes(a, c)} :
                  c \in CsxMatrices(dirA, a, b)} :
           b \in (IF CsxReadsBuffers(a) THEN {0, 1} ELSE {0})}

\* runtime failures are injected into the calls on a full matrix and on a
\* matrix of one entry
CsxRuntimes(a, m0) ==
    IF CsxReadsBuffers(a) /\ Len(m0.csx_val) \in {1, a.m * a.n}
    THEN Runtimes(1) ELSE {NoFail}

CsxHandles ==
    [pointer_mode : {rocsparse_pointer_mode_host}, wavefront_size : {64}, buffer_size : {0}]

\* a matrix of MaxGridRows rows (csr2dense) or columns (csc2dense), more than
\* one block covers, with an entry in the first and in the last of them, into
\* a buffer with one padding element per column
InitCsx2denseManyRows ==
    /\ entry \in {"csr2dense", "csc2dense"}
    /\ LET dirA == IF entry = "csr2dense" THEN rocsparse_direction_row
                   ELSE rocsparse_direction_column
           m == IF entry = "csr2dense" THEN MaxGridRows ELSE 1
           n == IF entry = "csr2dense" THEN 1 ELSE MaxGridRows
           c == Compressed(dirA, {<<0, 0>>, <<m - 1, n - 1>>}, m, n, 0)
       IN /\ args = [handle |-> "handle", m |-> m, n |-> n, lda |-> m + 1,
                     descr |-> "descr", csx_val |-> "csx_val",
                     csx_row_col_ptr |-> "csx_row_col_ptr",
                     csx_col_row_ind |-> "csx_col_row_ind", A |-> "A"]
          /\ mem = [A |-> [k \in 1..((m + 1) * n) |-> PAD], csx_val |-> c.csx_val,
                    csx_row_col_ptr |-> c.csx_row_col_ptr,
                    csx_col_row_ind |-> c.csx_col_row_ind,
                    descr |-> [type |-> rocsparse_matrix_type_general, base |-> 0]]
    /\ handle \in CsxHandles
    /\ runtime = NoFail

InitCsx2dense ==
    \/ /\ entry \in {"csr2dense", "csc2dense"}
       /\ args \in CsxArgs
       /\ handle \in CsxHandles
       /\ mem \in CsxMem(IF entry = "csr2dense" THEN rocsparse_direction_row
                         ELSE rocsparse_direction_column, args)
       /\ runtime \in CsxRuntimes(args, mem)
    \/ InitCsx2denseManyRows

PointerArgs(e) ==
    IF e = "csrgeam_nnz"
    THEN {"descr_A", "csr_row_ptr_A", "csr_col_ind_A", "descr_B", "csr_row_ptr_B",
          "csr_col_ind_B", "descr_C", "csr_row_ptr_C", "nnz_C"}
    ELSE IF e = "csrgeam"
    THEN {"alpha", "descr_A", "csr_val_A", "csr_row_ptr_A", "csr_col_ind_A", "beta",
          "descr_B", "csr_val_B", "csr_row_ptr_B", "csr_col_ind_B", "descr_C",
          "csr_val_C", "csr_row_ptr_C", "csr_col_ind_C"}
    ELSE IF e = "csr2bsr_nnz"
    THEN {"csr_descr", "csr_row_ptr", "csr_col_ind", "bsr_descr", "bsr_row_ptr", "bsr_nnzb"}
    ELSE {"csr_descr", "csr_val", "csr_row_ptr", "csr_col_ind", "bsr_descr", "bsr_val",
          "bsr_row_ptr", "bsr_col_ind"}

\* the calls of the csrgeam and csr2bsr entry points on which a check fires
\* (the handle check included), with at most one null pointer argument
SizeCheckedArgs(e) ==
    {a \in [handle : {NULL, "handle"},
            dir : IF e \in Csr2bsrEntries THEN Directions ELSE {rocsparse_direction_row},
            m : (-1)..MaxDim, n : (-1)..MaxDim,
            nnz_A : IF e \in CsrgeamEntries THEN {-1, 1} ELSE {0},
            nnz_B : IF e \in CsrgeamEntries THEN {-1, 1} ELSE {0},
            block_dim : IF e \in Csr2bsrEntries THEN (-1)..1 ELSE {1},
            null : {"none"} \cup PointerArgs(e)] :
        a.handle = NULL \/ FiredChecks(e, a) # {}}

InitSizeChecked ==
    /\ entry \in CsrgeamEntries \cup Csr2bsrEntries
    /\ args \in SizeCheckedArgs(entry)
    /\ handle \in [pointer_mode : IF args.handle # NULL /\ ZeroSize(entry, args)
                                  THEN PointerModes ELSE {rocsparse_pointer_mode_host},
                   wavefront_size : {64}, buffer_size : {0}]
    /\ mem = [scalar |-> POISON]
    /\ runtime \in (IF args.handle # NULL /\ ZeroSize(entry, args)
                       /\ ScalarOutput(entry) \notin {"none", args.null}
                    THEN Runtimes(1) ELSE {NoFail})

\* zero-based positions of an m x n matrix, and those of a pattern in row i
Positions(m, n) == (0..(m - 1)) \X (0..(n - 1))
RowColumns(pat, i) == {p[2] : p \in {q \in pat : q[1] = i}}

\* rank (from 1) of position p of pattern pat in row-major order
PatternRank(pat, p) ==
    1 + Cardinality({r \in pat : r[1] < p[1] \/ (r[1] = p[1] /\ r[2] < p[2])})

\* the CSR arrays of a pattern: sorted rows, no duplicate columns
PatternRowPtr(pat, m, base) ==
    [k \in 1..(m + 1) |-> base + Cardinality({p \in pat : p[1] < k - 1})]
PatternColInd(pat, base) ==
    [q \in 1..Cardinality(pat) |-> (CHOOSE p \in pat : PatternRank(pat, p) = q)[2] + base]

\* pairs of patterns of one shape with at most MaxGeamNnz entries together,
\* values 1, 2, ... in A and 10, 20, ... in B, scalars 2 and 3; the 4 x 4
\* identity with values 1 added to the empty matrix with scalars 1 and 1; and
\* a 2 x 4 pair whose rows hold columns of A only, of B only and of both
GeamProblems ==
    UNION {UNION {{[m |-> m, n |-> n, patA |-> pa, patB |-> pb, alpha |-> 2, beta |-> 3,
                    val_A |-> [q \in 1..Cardinality(pa) |-> q],
                    val_B |-> [q \in 1..Cardinality(pb) |-> 10 * q]] :
                      pb \in {x \in SUBSET Positions(m, n) :
                                 Cardinality(x) + Cardinality(pa) <= MaxGeamNnz}} :
                  pa \in {x \in SUBSET Positions(m, n) : Cardinality(x) <= MaxGeamNnz}} :
           <<m, n>> \in (1..MaxDim) \X (1..MaxDim)}
    \cup {[m |-> 4, n |-> 4, patA |-> {<<i, i>> : i \in 0..3}, patB |-> {},
           alpha |-> 1, beta |-> 1, val_A |-> [q \in 1..4 |-> 1], val_B |-> <<>>],
          [m |-> 2, n |-> 4, patA |-> {<<0, 0>>, <<0, 1>>, <<0, 3>>, <<1, 2>>},
           patB |-> {<<0, 1>>, <<0, 2>>, <<1, 2>>}, alpha |-> 2, beta |-> 3,
           val_A |-> <<1, 2, 3, 4>>, val_B |-> <<10, 20, 30>>]}

IndexBases == {0, 1}

\* the valid calls of rocsparse_csrgeam_nnz made by testing_csrgeam, device
\* copies of the scalars included
InitCsrgeam ==
    /\ entry = "csrgeam_nnz"
    /\ \E g \in GeamProblems, baseA \in IndexBases, baseB \in IndexBases, baseC \in IndexBases :
         /\ args = [handle |-> "handle", dir |-> rocsparse_direction_row,
                    m |-> g.m, n |-> g.n,
                    nnz_A |-> Cardinality(g.patA), nnz_B |-> Cardinality(g.patB),
                    block_dim |-> 1, null |-> "none",
                    alpha |-> g.alpha, beta |-> g.beta,
                    baseA |-> baseA, baseB |-> baseB, baseC |-> baseC,
                    patA |-> g.patA, patB |-> g.patB]
         /\ mem = [scalar |-> POISON,
                   csr_row_ptr_A |-> PatternRowPtr(g.patA, g.m, baseA),
                   csr_col_ind_A |-> PatternColInd(g.patA, baseA),
                   csr_val_A |-> g.val_A,
                   csr_row_ptr_B |-> PatternRowPtr(g.patB, g.m, baseB),
                   csr_col_ind_B |-> PatternColInd(g.patB, baseB),
                   csr_val_B |-> g.val_B,
                   d_alpha |-> g.alpha, d_beta |-> g.beta,
                   csr_row_ptr_C |-> [k \in 1..(g.m + 1) |-> POISON],
                   csr_col_ind_C |-> <<>>, csr_val_C |-> <<>>]
    /\ handle \in [pointer_mode : PointerModes, wavefront_size : {64}, buffer_size : {0}]
    /\ runtime = NoFail

\* the valid calls of rocsparse_csr2bsr_nnz that start the round trip of
\* testing_csr2bsr: a compressed CSR matrix (sorted rows, no stored zero, at
\* most MaxBsrNnz entries with values 1, 2, ...), a block dimension, a
\* direction and the index bases of the two descriptors
Csr2bsrProblems ==
    UNION {[m : {mn[1]}, n : {mn[2]},
            pat : {x \in SUBSET Positions(mn[1], mn[2]) : Cardinality(x) <= MaxBsrNnz},
            block_dim : 1..MaxBlockDim,
            dir : {rocsparse_direction_row, rocsparse_direction_column},
            csr_base : IndexBases, bsr_base : IndexBases] :
           mn \in (1..MaxDim) \X (1..MaxDim)}

InitCsr2bsr ==
    /\ entry = "csr2bsr_nnz"
    /\ \E g \in Csr2bsrProblems :
         /\ args = [handle |-> "handle", dir |-> g.dir, m |-> g.m, n |-> g.n,
                    nnz_A |-> 0, nnz_B |-> 0, block_dim |-> g.block_dim, null |-> "none",
                    csr_base |-> g.csr_base, bsr_base |-> g.bsr_base, pat |-> g.pat]
         /\ mem = [scalar |-> POISON,
                   csr_row_ptr |-> PatternRowPtr(g.pat, g.m, g.csr_base),
                   csr_col_ind |-> PatternColInd(g.pat, g.csr_base),
                   csr_val |-> [q \in 1..Cardinality(g.pat) |-> q],
                   bsr_row_ptr |-> [k \in 1..(bsr_blocks(g.m, g.block_dim) + 1) |-> POISON],
                   bsr_col_ind |-> <<>>, bsr_val |-> <<>>,
                   gold_row_ptr_A |-> <<>>, gold_col_ind_A |-> <<>>, gold_val_A |-> <<>>,
                   nnz_per_row_gold |-> <<>>, nnz_gold_C |-> POISON,
                   gold_row_ptr_C |-> <<>>, gold_col_ind_C |-> <<>>, gold_val_C |-> <<>>]
    /\ handle \in [pointer_mode : PointerModes, wavefront_size : {64}, buffer_size : {0}]
    /\ runtime = NoFail

\* launches of csr2csc_permute_kernel: nnz entries, a grid of lanes lanes, a
\* map into [0, nnz), row indices in1 and values in2 = 5 + in1
PermuteArgs ==
    UNION {[nnz : {z}, lanes : 1..MaxLanes, map : [1..z -> 0..(z - 1)],
            in1 : [1..z -> {0, 1}]] : z \in 0..MaxPermNnz}

InitPermute ==
    /\ entry = "csr2csc_permute"
    /\ args \in PermuteArgs
    /\ handle = [pointer_mode |-> rocsparse_pointer_mode_host, wavefront_size |-> 64,
                 buffer_size |-> 0]
    /\ mem = [map |-> args.map, in1 |-> args.in1,
              in2 |-> [k \in 1..args.nnz |-> 5 + args.in1[k]],
              out1 |-> [k \in 1..(MaxLanes + 1) |-> POISON],
              out2 |-> [k \in 1..(MaxLanes + 1) |-> POISON],
              lane |-> [g \in 0..(args.lanes - 1) |-> "start"],
              idx |-> [g \in 0..(args.lanes - 1) |-> POISON],
              reads |-> {}, writes |-> {}]
    /\ runtime = NoFail

\* calls in host pointer mode on a stream of each kind: the matrix holds
\* args.nnz entries, the counting pass and the reduction yield args.count, and
\* args.earlier tells whether the work producing csr_row_ptr is still pending
StreamArgs(e) ==
    [nnz : 1..MaxStreamCount, count : 1..MaxStreamCount,
     earlier : IF e = "nnz_on_stream" THEN {FALSE} ELSE BOOLEAN]

InitStream ==
    /\ entry \in StreamEntries
    /\ args \in StreamArgs(entry)
    /\ handle \in [pointer_mode : {rocsparse_pointer_mode_host}, wavefront_size : {64},
                   buffer_size : {0}, stream : StreamKinds]
    /\ mem = [host |-> 1,
              queue |-> IF args.earlier THEN << "csr_producer" >> ELSE << >>,
              csr_row_ptr_m |-> IF args.earlier THEN POISON ELSE args.nnz,
              nnz_A |-> POISON, nnz_per_row |-> POISON, d_nnz |-> POISON,
              total |-> POISON]
    /\ runtime = NoFail

Init ==
    /\ pc = "call"
    /\ status = "pending"
    /\ trace = <<>>
    /\ \/ InitNnz
       \/ InitNnzCompress
       \/ InitCsx2dense
       \/ InitSizeChecked
       \/ InitPermute
       \/ InitCsrgeam
       \/ InitCsr2bsr
       \/ InitStream

Next ==
    \/ rocsparse_nnz_impl
    \/ rocsparse_nnz_compress_template
    \/ rocsparse_csx2dense_impl
    \/ rocsparse_csrgeam_nnz
    \/ rocsparse_csrgeam
    \/ rocsparse_csr2bsr_nnz
    \/ rocsparse_csr2bsr
    \/ csr2csc_permute_kernel
    \/ testing_csrgeam
    \/ rocsparse_bsr2csr
    \/ rocsparse_csr2csr_compress
    \/ testing_csr2bsr
    \/ enqueue_on_stream
    \/ hipMemcpy_device_to_host
    \/ stream_executes

Spec == Init /\ [][Next]_vars

(***************************************************************************)
(* Properties of rocsparse_nnz_impl.                                       *)
(***************************************************************************)
Returned(e) == pc = "returned" /\ entry = e
NoHipError == runtime.fail_at = 0
Wrote(dst) == \E k \in 1..Len(trace) : trace[k].dst = dst

NnzNullPointer ==
    args.descr = NULL \/ args.A = NULL \/ args.nnz_per_row_columns = NULL
    \/ args.nnz_total = NULL

\* status of the first check that fires, in the order
\* handle, size, zero dimension, pointers, matrix type ("none": no check fires)
NnzFirstCheckWithoutDirection ==
    IF args.handle = NULL THEN "invalid_handle"
    ELSE IF args.m < 0 \/ args.n < 0 \/ args.ld < args.m THEN "invalid_size"
    ELSE IF args.m = 0 \/ args.n = 0 THEN "success"
    ELSE IF NnzNullPointer THEN "invalid_pointer"
    ELSE IF mem.descr.type # "general" THEN "not_implemented"
    ELSE "none"

\* the same order with the direction check between handle and size
NnzFirstCheck ==
    IF args.handle = NULL THEN "invalid_handle"
    ELSE IF args.dir \notin {"row", "column"} THEN "invalid_value"
    ELSE NnzFirstCheckWithoutDirection

\* C1 as stated: the status of rocsparse_nnz_impl is that of the first check
\* firing in the order handle, size, zero dimension, pointers, matrix type.
C1_AsStated ==
    (Returned("nnz") /\ NoHipError /\ NnzFirstCheckWithoutDirection # "none")
        => status = NnzFirstCheckWithoutDirection

\* C1 amended: the order is handle, direction (invalid_value), size, zero
\* dimension, pointers, matrix type; the status is that of the first check firing.
C1_ValidationOrder ==
    (Returned("nnz") /\ NoHipError /\ NnzFirstCheck # "none")
        => status = NnzFirstCheck

C1_Witness ==
    /\ Returned("nnz") /\ status = "invalid_value"
    /\ args.m < 0 /\ args.descr = NULL

NnzDegenerate ==
    /\ Returned("nnz") /\ NoHipError /\ args.handle # NULL
    /\ args.m >= 0 /\ args.n >= 0 /\ args.ld >= args.m
    /\ (args.m = 0 \/ args.n = 0)

\* the effect C3 describes: success, total zeroed through the route of the
\* pointer mode when it is given, per-row/column array untouched
NnzQuickReturnEffect ==
    /\ status = "success"
    /\ ~Wrote("nnz_per_row_columns")
    /\ mem.nnz_per_row_columns = [k \in 1..MaxDim |-> POISON]
    /\ IF args.nnz_total = NULL
       THEN trace = <<>> /\ mem.nnz_total = POISON
       ELSE /\ mem.nnz_total = 0
            /\ trace = << Op(IF handle.pointer_mode = "device" THEN "hipMemsetAsync"
                              ELSE "host_store", "nnz_total", SizeofInt) >>

\* C3 as stated: m == 0 or n == 0 with valid sizes gives success whatever the
\* pointers are, the total zeroed by memset (device mode) or host store.
C3_AsStated == NnzDegenerate => NnzQuickReturnEffect

\* C3 amended: the same, for a direction that is row or column.
C3_QuickReturn ==
    (NnzDegenerate /\ args.dir \in {"row", "column"}) => NnzQuickReturnEffect

C3_Witness ==
    /\ NnzDegenerate /\ args.dir = "column" /\ args.descr = NULL /\ args.A = NULL
    /\ args.nnz_per_row_columns = NULL /\ args.nnz_total # NULL
    /\ handle.pointer_mode = "device" /\ status = "success"

\* non-zero entries of the logical m x n matrix
DenseNnz ==
    Cardinality({p \in (0..(args.m - 1)) \X (0..(args.n - 1)) :
                    mem.A[DenseIdx(p[1], p[2], args.ld)] # 0})

NnzCompressFirstCheck ==
    IF args.handle = NULL THEN "invalid_handle"
    ELSE IF args.descr_A = NULL THEN "invalid_pointer"
    ELSE IF args.m < 0 THEN "invalid_size"
    ELSE IF args.tol < 0 THEN "invalid_value"
    ELSE IF args.m = 0 THEN "success"
    ELSE IF args.csr_val_A = NULL \/ args.csr_row_ptr_A = NULL
            \/ args.nnz_per_row = NULL \/ args.nnz_C = NULL THEN "invalid_pointer"
    ELSE "none"

\* C2: the status of rocsparse_nnz_compress_template is that of the first
\* check firing in the order handle, descriptor, m < 0, tol < 0, m == 0,
\* csr_val_A / csr_row_ptr_A / nnz_per_row / nnz_C null.
C2_ValidationOrder ==
    (Returned("nnz_compress") /\ NoHipError /\ NnzCompressFirstCheck # "none")
        => status = NnzCompressFirstCheck

C2_Witness ==
    /\ Returned("nnz_compress") /\ status = "invalid_value"
    /\ args.m = 0 /\ args.nnz_C = NULL /\ args.csr_val_A = NULL

\* entries of row i (1-based) whose magnitude is strictly greater than the tolerance
RetainedInRow(i) ==
    Cardinality({p \in 1..Len(mem.csr_val_A) :
                    /\ mem.csr_row_ptr_A[i] - mem.descr.base < p
                    /\ p <= mem.csr_row_ptr_A[i + 1] - mem.descr.base
                    /\ (mem.csr_val_A[p] > args.tol \/ -mem.csr_val_A[p] > args.tol)})

\* the launch of the counting kernel recorded in the trace
KernelLaunches == {k \in 1..Len(trace) : trace[k].op = "nnz_compress_kernel"}

C8_WitnessWide ==
    /\ Returned("nnz_compress") /\ status = "success" /\ args.m = 1 /\ args.tol = 1
    /\ handle.pointer_mode = "device" /\ mem.nnz_C = 44
    /\ \E k \in KernelLaunches : trace[k].seg = 64

\* mean_nnz_per_row as the code computes it
MeanNnzPerRow == CDiv(mem.csr_row_ptr_A[args.m + 1], args.m)

PowersOfTwo == {1, 2, 4, 8, 16, 32, 64, 128, 256}

Min(a, b) == IF a <= b THEN a ELSE b
Max(a, b) == IF a >= b THEN a ELSE b

SmallestPowerOfTwoAtLeast(x) ==
    CHOOSE p \in PowersOfTwo : p >= x /\ \A q \in PowersOfTwo : q >= x => p <= q

LargestPowerOfTwoAtMost(x) ==
    CHOOSE p \in PowersOfTwo : p <= x /\ \A q \in PowersOfTwo : q <= x => q <= p

\* C9 as stated: the launched segment size is the smallest power of two that
\* is >= the mean, capped at the wavefront width.
C9_AsStated ==
    (Returned("nnz_compress") /\ handle.wavefront_size \in {32, 64})
        => \A k \in KernelLaunches :
               trace[k].seg = Min(SmallestPowerOfTwoAtLeast(MeanNnzPerRow),
                                  handle.wavefront_size)

\* C9 amended: the launched segment size is the largest power of two that is
\* <= the mean, raised to 2 when the mean is below 2 and capped at the
\* wavefront width.
C9_SegmentSize ==
    (Returned("nnz_compress") /\ handle.wavefront_size \in {32, 64})
        => \A k \in KernelLaunches :
               trace[k].seg = Min(Max(LargestPowerOfTwoAtMost(Max(MeanNnzPerRow, 1)), 2),
                                  handle.wavefront_size)

C9_Witness ==
    /\ Returned("nnz_compress") /\ NnzCompressReadsBuffers(args)
    /\ handle.wavefront_size = 64 /\ MeanNnzPerRow = 7
    /\ \E k \in KernelLaunches : trace[k].seg = 4

\* C10: with valid non-degenerate arguments and a wavefront size that is
\* neither 32 nor 64 the call returns arch_mismatch, launches no counting
\* kernel, allocates nothing and leaves nnz_per_row and nnz_C unwritten.
C10_ArchMismatch ==
    (Returned("nnz_compress") /\ NoHipError /\ NnzCompressReadsBuffers(args)
     /\ handle.wavefront_size \notin {32, 64})
        => /\ status = "arch_mismatch"
           /\ KernelLaunches = {}
           /\ \A k \in 1..Len(trace) : trace[k].op # "hipMalloc"
           /\ ~Wrote("nnz_per_row") /\ ~Wrote("nnz_C")
           /\ mem.nnz_per_row = [k \in 1..MaxDim |-> POISON]
           /\ mem.nnz_C = POISON

C10_Witness ==
    /\ Returned("nnz_compress") /\ status = "arch_mismatch"
    /\ handle.wavefront_size = 16 /\ Len(mem.csr_val_A) > 0
    /\ Len(trace) = 1 /\ trace[1].op = "hipMemcpy"

(***************************************************************************)
(* Properties of the entry points on negative and zero sizes.              *)
(***************************************************************************)
CsxEntries == {"csr2dense", "csc2dense"}
Finished == pc = "returned" /\ NoHipError /\ args.handle # NULL

\* M < 0 or N < 0 (nnz_compress has a row count only)
NegativeDimension ==
    IF entry = "nnz_compress" THEN args.m < 0 ELSE args.m < 0 \/ args.n < 0

NoEarlierCheckFires ==
    IF entry = "nnz" THEN args.dir \in {"row", "column"}
    ELSE IF entry = "nnz_compress" THEN args.descr_A # NULL
    ELSE IF entry \in CsxEntries THEN TRUE
    ELSE args.null = "none" /\ args.dir \in {"row", "column"}

C4_WitnessCompress ==
    /\ Finished /\ entry = "nnz_compress" /\ args.m < 0 /\ args.tol < 0
    /\ args.nnz_C = NULL /\ status = "invalid_size"

\* no size argument is negative
NoNegativeSize ==
    IF entry = "nnz" THEN args.m >= 0 /\ args.n >= 0 /\ args.ld >= 0
    ELSE IF entry = "nnz_compress" THEN args.m >= 0
    ELSE IF entry \in CsxEntries THEN args.m >= 0 /\ args.n >= 0 /\ args.lda >= 0
    ELSE ~NegativeSize(entry, args)

ZeroDimension ==
    IF entry = "nnz_compress" THEN args.m = 0 ELSE args.m = 0 \/ args.n = 0

ScalarPointerGiven ==
    IF entry = "nnz" THEN args.nnz_total # NULL
    ELSE IF entry = "nnz_compress" THEN args.nnz_C # NULL
    ELSE IF entry \in CsxEntries THEN FALSE
    ELSE ScalarOutput(entry) \notin {"none", args.null}

ScalarValue ==
    IF entry = "nnz" THEN mem.nnz_total
    ELSE IF entry = "nnz_compress" THEN mem.nnz_C
    ELSE mem.scalar

ArraysUntouched ==
    /\ \A k \in 1..Len(trace) :
          trace[k].op = "host_load" \/ trace[k].dst = ScalarOutput(entry)
    /\ entry = "nnz" => mem.nnz_per_row_columns = [k \in 1..MaxDim |-> POISON]
    /\ entry = "nnz_compress" => mem.nnz_per_row = [k \in 1..MaxDim |-> POISON]
    /\ entry \in CsxEntries => mem.A = [k \in 1..DenseLen |-> PAD]

\* success, a scalar output of 0 where there is one, no array written
TrivialSuccess ==
    /\ status = "success"
    /\ ScalarPointerGiven => ScalarValue = 0
    /\ ArraysUntouched

PassesChecksBeforeQuickReturn ==
    IF entry = "nnz" THEN args.dir \in {"row", "column"} /\ args.ld >= args.m
    ELSE IF entry = "nnz_compress" THEN args.descr_A # NULL /\ args.tol >= 0
    ELSE IF entry \in CsxEntries THEN args.lda >= args.m
    ELSE args.null = "none" /\ args.dir \in {"row", "column"}

C5_WitnessCompress ==
    /\ Finished /\ entry = "nnz_compress" /\ args.m = 0 /\ args.csr_val_A = NULL
    /\ args.nnz_per_row = NULL /\ handle.pointer_mode = "device"
    /\ status = "success" /\ mem.nnz_C = 0

(***************************************************************************)
(* Properties of rocsparse_csx2dense_impl.                                 *)
(***************************************************************************)
\* the pointer argument a host load goes through
LoadedPointer(o) ==
    IF o.dst \in {"descr->base", "descr->type"} THEN args.descr ELSE "handle"

\* C6: with a non-null handle, m >= 0, n >= 0, lda >= m and m == 0 or n == 0
\* rocsparse_csx2dense_impl returns success, dereferences no pointer argument
\* that is null (the matrix descriptor included) and issues neither the
\* zero-fill nor the scatter kernel.
C6_QuickReturnTouchesNothing ==
    (pc # "call" /\ entry \in CsxEntries /\ args.handle # NULL
     /\ args.m >= 0 /\ args.n >= 0 /\ args.lda >= args.m /\ (args.m = 0 \/ args.n = 0))
        => /\ pc = "returned" /\ status = "success"
           /\ \A k \in 1..Len(trace) :
                 /\ trace[k].op = "host_load"
                 /\ LoadedPointer(trace[k]) # NULL

(***************************************************************************)
(* Device buffers of rocsparse_nnz_impl and rocsparse_nnz_compress_template.*)
(***************************************************************************)
\* positions of the trace at which a device buffer was allocated
Allocations == {k \in 1..Len(trace) : trace[k].op = "hipMalloc" /\ trace[k].ok}

\* the buffer allocated at position k is freed later in the call
FreedLater(k) ==
    \E j \in (k + 1)..Len(trace) :
        trace[j].op = "hipFree" /\ trace[j].dst = trace[k].dst /\ trace[j].ok

\* the reduction storage of the call: its required byte count and the name
\* of the buffer allocated for it when the handle's buffer is too small
ReductionBytes ==
    IF entry = "nnz" THEN runtime.temp_bytes + SizeofInt ELSE runtime.temp_bytes

ReductionBuffer == IF entry = "nnz" THEN "d_nnz" ELSE "temp_storage"

ReductionRan == \E k \in 1..Len(trace) : trace[k].op = "rocprim_reduce"

\* C11: in rocsparse_nnz_impl and rocsparse_nnz_compress_template the
\* reduction borrows the handle's buffer exactly when buffer_size >= the
\* required bytes and otherwise uses a buffer allocated in the call, and on
\* every return path, successful or failing, every device buffer the call
\* allocated has been freed.
C11_BuffersFreedOnEveryPath ==
    (pc = "returned" /\ entry \in {"nnz", "nnz_compress"})
        => /\ ReductionRan =>
                ((handle.buffer_size >= ReductionBytes)
                    <=> ~\E k \in Allocations : trace[k].dst = ReductionBuffer)
           /\ \A k \in Allocations : FreedLater(k)

(***************************************************************************)
(* The dense matrix written by rocsparse_csx2dense_impl.                   *)
(***************************************************************************)
\* the row (csr2dense) or column (csc2dense), 0-based, that holds entry p of
\* the compressed arrays
MajorOf(p) ==
    CHOOSE r \in 0..(Len(mem.csx_row_col_ptr) - 2) :
        /\ mem.csx_row_col_ptr[r + 1] - mem.descr.base < p
        /\ p <= mem.csx_row_col_ptr[r + 2] - mem.descr.base

\* the entries of the compressed arrays stored at coordinate (i, j)
StoredAt(i, j) ==
    {p \in 1..Len(mem.csx_val) :
        IF entry = "csr2dense"
        THEN MajorOf(p) = i /\ mem.csx_col_row_ind[p] - mem.descr.base = j
        ELSE MajorOf(p) = j /\ mem.csx_col_row_ind[p] - mem.descr.base = i}

\* the dense matrix is the compressed one: stored value at stored
\* coordinates, zero elsewhere in the m x n logical part
DenseIsCompressed ==
    \A i \in 0..(args.m - 1), j \in 0..(args.n - 1) :
        IF StoredAt(i, j) = {} THEN mem.A[DenseIdx(i, j, args.lda)] = 0
        ELSE \E p \in StoredAt(i, j) : mem.A[DenseIdx(i, j, args.lda)] = mem.csx_val[p]

\* the zero-fill is issued before the scatter kernel
FillBeforeScatter ==
    \E k \in 1..Len(trace) :
        /\ trace[k].op = "hipMemset2DAsync"
        /\ \E j \in (k + 1)..Len(trace) :
              trace[j].op \in {"csr2dense_kernel", "csc2dense_kernel"}

CsxSucceeded ==
    /\ pc = "returned" /\ entry \in CsxEntries /\ status = "success"
    /\ args.m >= 1 /\ args.n >= 1

\* C12: after a successful rocsparse_csx2dense_impl on a valid m x n CSR or
\* CSC matrix (base 0 or 1, lda >= m) every stored coordinate of A holds the
\* stored value and every other element of the m x n part is zero, the
\* zero-fill being issued before the scatter kernel.
C12_DenseEqualsCompressed == CsxSucceeded => (DenseIsCompressed /\ FillBeforeScatter)

\* the same on the calls in which the device runtime accepts the zero-fill
C12_WhenFillAccepted ==
    (CsxSucceeded /\ NoHipError) => (DenseIsCompressed /\ FillBeforeScatter)

\* the 2 x 2 identity CSR with base 0 into a buffer with lda = 2 gives [1, 0, 0, 1]
C12_Identity ==
    (CsxSucceeded /\ NoHipError /\ entry = "csr2dense" /\ args.m = 2 /\ args.n = 2
     /\ args.lda = 2 /\ mem.descr.base = 0 /\ mem.csx_val = <<1, 1>>
     /\ mem.csx_col_row_ind = <<0, 1>>)
        => \A k \in 1..4 : mem.A[k] = <<1, 0, 0, 1>>[k]

C12_IdentityReached ==
    /\ CsxSucceeded /\ NoHipError /\ entry = "csr2dense" /\ args.m = 2 /\ args.n = 2
    /\ args.lda = 2 /\ mem.descr.base = 0 /\ mem.csx_val = <<1, 1>>
    /\ mem.csx_col_row_ind = <<0, 1>>

(***************************************************************************)
(* The matrix type of the descriptor.                                      *)
(***************************************************************************)
\* a call with valid non-degenerate arguments on an entry point that takes a descriptor
ValidNonDegenerate ==
    IF entry = "nnz" THEN NnzReadsBuffers(args)
    ELSE IF entry = "nnz_compress" THEN NnzCompressReadsBuffers(args)
    ELSE IF entry \in CsxEntries THEN CsxReadsBuffers(args)
    ELSE FALSE

\* the call issued nothing to the device: its trace holds host loads only
NoDeviceWork == \A k \in 1..Len(trace) : trace[k].op = "host_load"

\* C13: nnz, csr2dense/csc2dense and nnz_compress, called with valid
\* non-degenerate arguments and a descriptor whose matrix type is not
\* general, return not_implemented and issue no device work.
C13_NotImplemented ==
    (pc = "returned" /\ NoHipError /\ ValidNonDegenerate
     /\ mem.descr.type # rocsparse_matrix_type_general)
        => (status = "not_implemented" /\ NoDeviceWork)

\* the same for the entry points that check the matrix type
C13_WhereTypeIsChecked ==
    (pc = "returned" /\ NoHipError /\ ValidNonDegenerate /\ entry # "nnz_compress"
     /\ mem.descr.type # rocsparse_matrix_type_general)
        => (status = "not_implemented" /\ NoDeviceWork)

C13_TypeCheckReached ==
    /\ pc = "returned" /\ entry = "csc2dense" /\ ValidNonDegenerate
    /\ mem.descr.type = "symmetric" /\ status = "not_implemented"

(***************************************************************************)
(* The gather of csr2csc_permute_kernel.                                   *)
(***************************************************************************)
PermuteDone == pc = "completed" /\ entry = "csr2csc_permute"

\* map is a permutation of [0, nnz)
MapIsPermutation ==
    \A v \in 0..(args.nnz - 1) : \E g \in 1..args.nnz : args.map[g] = v

\* number of positions of the output / of the input that hold the pair pr
OutPairs(pr) == Cardinality({g \in 1..args.nnz : <<mem.out1[g], mem.out2[g]>> = pr})
InPairs(pr) == Cardinality({k \in 1..args.nnz : <<mem.in1[k], mem.in2[k]>> = pr})

\* C14: after csr2csc_permute_kernel has run with at least nnz lanes,
\* out1[g] = in1[map[g]] and out2[g] = in2[map[g]] for every g in [0, nnz),
\* and when map is a permutation the multiset of pairs (out1[g], out2[g]) is
\* the multiset of pairs (in1[k], in2[k]).
C14_Gather ==
    (PermuteDone /\ args.lanes >= args.nnz)
        => /\ \A g \in 1..args.nnz :
                /\ mem.out1[g] = args.in1[args.map[g] + 1]
                /\ mem.out2[g] = 5 + args.in1[args.map[g] + 1]
           /\ MapIsPermutation =>
                \A a \in {0, 1}, b \in {5, 6} : OutPairs(<<a, b>>) = InPairs(<<a, b>>)

C14_Witness ==
    /\ PermuteDone /\ args.nnz = 2 /\ args.lanes = 3
    /\ args.map = <<1, 0>> /\ args.in1 = <<0, 1>>
    /\ mem.out1[1] = 1 /\ mem.out2[1] = 6 /\ mem.out1[2] = 0 /\ mem.out2[2] = 5

(***************************************************************************)
(* C15: bad arguments of rocsparse_csrgeam_nnz and rocsparse_csrgeam       *)
(***************************************************************************)
\* a csrgeam call that has returned
CsrgeamReturned == pc = "returned" /\ entry \in CsrgeamEntries

\* every size argument of the csrgeam call is positive
CsrgeamSizesPositive == args.m > 0 /\ args.n > 0 /\ args.nnz_A > 0 /\ args.nnz_B > 0

\* some size argument of the csrgeam call is negative
CsrgeamSomeSizeNegative == args.m < 0 \/ args.n < 0 \/ args.nnz_A < 0 \/ args.nnz_B < 0

\* C15: with all other arguments valid, rocsparse_csrgeam_nnz and
\* rocsparse_csrgeam return invalid_handle for a null handle, invalid_pointer
\* when a single descriptor, scalar, row-pointer, column-index, value or nnz_C
\* pointer is null, and invalid_size when one of M, N, nnz_A, nnz_B is
\* negative.
C15_CsrgeamBadArg ==
    CsrgeamReturned =>
        /\ (args.handle = NULL /\ args.null = "none" /\ CsrgeamSizesPositive)
               => status = "invalid_handle"
        /\ (args.handle # NULL /\ args.null \in PointerArgs(entry) /\ CsrgeamSizesPositive)
               => status = "invalid_pointer"
        /\ (args.handle # NULL /\ args.null = "none" /\ CsrgeamSomeSizeNegative)
               => status = "invalid_size"

C15_Witness ==
    /\ CsrgeamReturned /\ entry = "csrgeam" /\ args.handle # NULL
    /\ args.null = "beta" /\ CsrgeamSizesPositive /\ status = "invalid_pointer"

C15_WitnessHandle ==
    /\ CsrgeamReturned /\ entry = "csrgeam_nnz" /\ args.handle = NULL
    /\ args.null = "none" /\ CsrgeamSizesPositive /\ status = "invalid_handle"

C15_WitnessSize ==
    /\ CsrgeamReturned /\ entry = "csrgeam_nnz" /\ args.handle # NULL
    /\ args.null = "none" /\ args.m > 0 /\ args.n > 0 /\ args.nnz_A > 0
    /\ args.nnz_B < 0 /\ status = "invalid_size"

(***************************************************************************)
(* C18: bad arguments of rocsparse_csr2bsr_nnz and rocsparse_csr2bsr       *)
(***************************************************************************)
\* a csr2bsr call that has returned
Csr2bsrReturned == pc = "returned" /\ entry \in Csr2bsrEntries

DirectionValid == args.dir \in {rocsparse_direction_row, rocsparse_direction_column}

\* every size argument of the csr2bsr call is positive
Csr2bsrSizesPositive == args.m > 0 /\ args.n > 0 /\ args.block_dim > 0

\* some size argument of the csr2bsr call is negative
Csr2bsrSomeSizeNegative == args.m < 0 \/ args.n < 0 \/ args.block_dim < 0

\* C18: with all other arguments valid, rocsparse_csr2bsr_nnz and
\* rocsparse_csr2bsr return invalid_handle for a null handle, invalid_pointer
\* when a single descriptor, array or nnzb pointer is null, invalid_value
\* when the direction is neither row nor column, and invalid_size when one of
\* M, N, block_dim is negative.
C18_Csr2bsrBadArg ==
    Csr2bsrReturned =>
        /\ (args.handle = NULL /\ args.null = "none" /\ DirectionValid
            /\ Csr2bsrSizesPositive)
               => status = "invalid_handle"
        /\ (args.handle # NULL /\ args.null \in PointerArgs(entry) /\ DirectionValid
            /\ Csr2bsrSizesPositive)
               => status = "invalid_pointer"
        /\ (args.handle # NULL /\ args.null = "none" /\ ~DirectionValid
            /\ Csr2bsrSizesPositive)
               => status = "invalid_value"
        /\ (args.handle # NULL /\ args.null = "none" /\ DirectionValid
            /\ Csr2bsrSomeSizeNegative)
               => status = "invalid_size"

C18_Witness ==
    /\ Csr2bsrReturned /\ entry = "csr2bsr" /\ args.handle # NULL
    /\ args.null = "none" /\ ~DirectionValid /\ Csr2bsrSizesPositive
    /\ status = "invalid_value"

C18_WitnessPointer ==
    /\ Csr2bsrReturned /\ entry = "csr2bsr_nnz" /\ args.handle # NULL
    /\ args.null = "bsr_nnzb" /\ DirectionValid /\ Csr2bsrSizesPositive
    /\ status = "invalid_pointer"

C18_WitnessSize ==
    /\ Csr2bsrReturned /\ entry = "csr2bsr" /\ args.handle # NULL
    /\ args.null = "none" /\ args.dir = rocsparse_direction_column
    /\ args.m > 0 /\ args.n > 0 /\ args.block_dim < 0 /\ status = "invalid_size"

(***************************************************************************)
(* C19: degenerate sizes of rocsparse_csr2bsr_nnz and rocsparse_csr2bsr    *)
(***************************************************************************)
\* at least one of M, N, block_dim is <= 0, the handle, the direction and
\* every buffer being valid
Csr2bsrDegenerate ==
    /\ Csr2bsrReturned /\ NoHipError
    /\ args.handle # NULL /\ args.null = "none" /\ DirectionValid
    /\ (args.m <= 0 \/ args.n <= 0 \/ args.block_dim <= 0)

C19_WitnessNegative ==
    /\ Csr2bsrDegenerate /\ args.block_dim = 0 /\ args.m < 0 /\ status = "invalid_size"

(***************************************************************************)
(* C16: the row pointers and nnz_C of rocsparse_csrgeam_nnz                *)
(***************************************************************************)
\* a csrgeam call of testing_csrgeam on valid, non-degenerate arguments
GeamValid ==
    /\ entry \in CsrgeamEntries /\ args.handle # NULL
    /\ args.null = "none" /\ args.m > 0 /\ args.n > 0 /\ args.nnz_A >= 0 /\ args.nnz_B >= 0

\* rocsparse_csrgeam_nnz has returned (the following csrgeam call included)
GeamNnzDone == GeamValid /\ (entry = "csrgeam" \/ (pc = "returned" /\ status = "success"))

\* the columns of row i of C: those of row i of A or of B
GeamRowColumns(i) == RowColumns(args.patA, i) \cup RowColumns(args.patB, i)

\* C16: for A and B of one shape with sorted column indices and any index
\* bases, csrgeam_nnz produces csr_row_ptr_C[0] = baseC and
\* csr_row_ptr_C[i+1] - csr_row_ptr_C[i] = |columns(A_i) u columns(B_i)|,
\* reports nnz_C = csr_row_ptr_C[M] - baseC, and the same in host and device
\* pointer mode (the values are fixed by the matrices and bases alone).
C16_RowPointers ==
    GeamNnzDone =>
        /\ mem.csr_row_ptr_C[1] = args.baseC
        /\ \A i \in 0..(args.m - 1) :
              mem.csr_row_ptr_C[i + 2] - mem.csr_row_ptr_C[i + 1]
                  = Cardinality(GeamRowColumns(i))
        /\ mem.scalar = mem.csr_row_ptr_C[args.m + 1] - args.baseC

\* rows with columns of A only, of B only and of both, bases that differ,
\* device pointer mode
C16_Witness ==
    /\ GeamNnzDone /\ entry = "csrgeam_nnz"
    /\ handle.pointer_mode = rocsparse_pointer_mode_device
    /\ args.baseA = 1 /\ args.baseB = 0 /\ args.baseC = 1
    /\ RowColumns(args.patA, 0) = {0, 1, 3} /\ RowColumns(args.patB, 0) = {1, 2}
    /\ RowColumns(args.patA, 1) = {2} /\ RowColumns(args.patB, 1) = {2}
    /\ mem.csr_row_ptr_C = <<1, 5, 6>>
    /\ mem.scalar = 5

C16_WitnessHost ==
    /\ GeamNnzDone /\ entry = "csrgeam_nnz"
    /\ handle.pointer_mode = rocsparse_pointer_mode_host
    /\ args.m = 2 /\ args.patA = {<<1, 0>>} /\ args.patB = {<<0, 1>>}
    /\ mem.csr_row_ptr_C = <<args.baseC, args.baseC + 1, args.baseC + 2>>

(***************************************************************************)
(* C17: the columns and values of rocsparse_csrgeam                        *)
(***************************************************************************)
\* rocsparse_csrgeam has returned after rocsparse_csrgeam_nnz
GeamDone == GeamValid /\ entry = "csrgeam" /\ pc = "returned" /\ status = "success"

\* the value of A and of B at (i, j), 0 where no entry is stored
GeamValueA(i, j) ==
    IF <<i, j>> \in args.patA THEN mem.csr_val_A[PatternRank(args.patA, <<i, j>>)] ELSE 0
GeamValueB(i, j) ==
    IF <<i, j>> \in args.patB THEN mem.csr_val_B[PatternRank(args.patB, <<i, j>>)] ELSE 0

\* row i of C as stored: positions csr_row_ptr_C[i] - baseC .. csr_row_ptr_C[i+1] - baseC - 1
GeamRowStored(buf, i) ==
    Slice(buf, mem.csr_row_ptr_C[i + 1] - args.baseC + 1, mem.csr_row_ptr_C[i + 2] - args.baseC)

\* C17: after csrgeam_nnz and csrgeam each row i of C holds exactly the
\* columns of columns(A_i) u columns(B_i) in strictly increasing order, in
\* C's own index base, each with value alpha*A[i,j] + beta*B[i,j]; exactly
\* nnz_C entries are written; the result is the same for host and device
\* scalars (it is fixed by the matrices, bases and scalar values alone).
C17_ColumnsAndValues ==
    GeamDone =>
        /\ \A i \in 0..(args.m - 1) :
              LET cols == GeamRowStored(mem.csr_col_ind_C, i)
                  vals == GeamRowStored(mem.csr_val_C, i)
              IN /\ {cols[k] - args.baseC : k \in 1..Len(cols)} = GeamRowColumns(i)
                 /\ Len(cols) = Cardinality(GeamRowColumns(i))
                 /\ \A k \in 1..(Len(cols) - 1) : cols[k] < cols[k + 1]
                 /\ \A k \in 1..Len(cols) :
                       vals[k] = args.alpha * GeamValueA(i, cols[k] - args.baseC)
                                 + args.beta * GeamValueB(i, cols[k] - args.baseC)
        /\ Len(mem.csr_col_ind_C) = mem.scalar + 1
        /\ mem.csr_col_ind_C[mem.scalar + 1] = POISON
        /\ mem.csr_val_C[mem.scalar + 1] = POISON

\* the scenario of the claim: A the 4 x 4 identity with values 1, B empty,
\* alpha = beta = 1
C17_Witness ==
    /\ GeamDone /\ args.m = 4 /\ args.n = 4 /\ args.nnz_B = 0
    /\ args.alpha = 1 /\ args.beta = 1 /\ args.baseC = 0
    /\ handle.pointer_mode = rocsparse_pointer_mode_device
    /\ mem.scalar = 4
    /\ mem.csr_col_ind_C = <<0, 1, 2, 3, POISON>>
    /\ mem.csr_val_C = <<1, 1, 1, 1, POISON>>

\* rows with columns of A only, of B only and of both, bases differing
C17_WitnessMerge ==
    /\ GeamDone /\ args.baseA = 0 /\ args.baseB = 1 /\ args.baseC = 1
    /\ args.m = 2 /\ args.n = 4 /\ args.nnz_A = 4 /\ args.nnz_B = 3
    /\ mem.csr_col_ind_C = <<1, 2, 3, 4, 3, POISON>>
    /\ mem.csr_val_C = <<2 * 1, 2 * 2 + 3 * 10, 3 * 20, 2 * 3, 2 * 4 + 3 * 30, POISON>>

(***************************************************************************)
(* C20: the round trip csr2bsr, bsr2csr, compress                          *)
(***************************************************************************)
\* the round trip of testing_csr2bsr has run to its end
RoundTripDone == entry = "csr2csr_compress" /\ pc = "returned" /\ status = "success"

\* C20: for every valid CSR matrix without stored zeros, every block_dim >= 1,
\* both directions and both index bases, converting with csr2bsr_nnz and
\* csr2bsr, converting back with bsr2csr and compressing with tolerance 0
\* yields, on the first M rows, the row pointers, column indices and values
\* of the original compressed matrix.
C20_RoundTrip ==
    RoundTripDone =>
        /\ Len(mem.gold_row_ptr_C) >= args.m + 1
        /\ \A k \in 1..(args.m + 1) : mem.gold_row_ptr_C[k] = mem.csr_row_ptr[k]
        /\ Len(mem.gold_col_ind_C) >= Len(mem.csr_col_ind)
        /\ \A q \in 1..Len(mem.csr_col_ind) :
              /\ mem.gold_col_ind_C[q] = mem.csr_col_ind[q]
              /\ mem.gold_val_C[q] = mem.csr_val[q]

\* a 2 x 2 block, stored column-major, holding an entry off its diagonal,
\* padded by a row, with zeros dropped on the way back
C20_Witness ==
    /\ RoundTripDone /\ args.block_dim = 2 /\ args.dir = rocsparse_direction_column
    /\ args.m = 1 /\ args.n = 2 /\ args.pat = {<<0, 1>>}
    /\ args.csr_base = 1 /\ args.bsr_base = 0
    /\ mem.bsr_val = <<0, 0, 1, 0, POISON>>
    /\ Len(mem.gold_val_A) = 4
    /\ mem.gold_val_C = <<1>>
    /\ mem.gold_col_ind_C = <<2>>

\* two block rows and an entry in each
C20_WitnessRows ==
    /\ RoundTripDone /\ args.block_dim = 1 /\ args.m = 2 /\ args.n = 2
    /\ args.pat = {<<0, 1>>, <<1, 0>>} /\ args.bsr_base = 1
    /\ mem.bsr_row_ptr = <<1, 2, 3>>
    /\ mem.bsr_col_ind = <<2, 1, POISON>>

(***************************************************************************)
(* C21: nnzb, the block row pointers and the extent of the fill of csr2bsr *)
(***************************************************************************)
\* a csr2bsr call of the round trip of testing_csr2bsr
Csr2bsrValid ==
    /\ entry \in Csr2bsrEntries /\ args.handle # NULL /\ args.null = "none"
    /\ DirectionValid /\ Csr2bsrSizesPositive

\* rocsparse_csr2bsr_nnz has returned (the following csr2bsr call included)
Csr2bsrNnzDone ==
    Csr2bsrValid /\ (entry = "csr2bsr" \/ (pc = "returned" /\ status = "success"))

\* rocsparse_csr2bsr has returned
Csr2bsrDone == Csr2bsrValid /\ entry = "csr2bsr" /\ pc = "returned" /\ status = "success"

\* the (block row, block column) pairs that hold an entry of the matrix
PopulatedBlocks ==
    {<<p[1] \div args.block_dim, p[2] \div args.block_dim>> : p \in args.pat}

\* the smallest k with k * bd >= x
CeilDiv(x, bd) == CHOOSE k \in 0..x : k * bd >= x /\ (k = 0 \/ (k - 1) * bd < x)

\* C21: csr2bsr_nnz reports, in host and in device pointer mode alike, nnzb =
\* the number of distinct (block row, block column) pairs holding a CSR
\* entry; the BSR row pointer has ceil(M/block_dim)+1 entries; the fill phase
\* writes exactly nnzb block column indices and nnzb*block_dim^2 values.
C21_BlockCount ==
    /\ Csr2bsrNnzDone =>
          /\ mem.scalar = Cardinality(PopulatedBlocks)
          /\ Len(mem.bsr_row_ptr) = CeilDiv(args.m, args.block_dim) + 1
          /\ \A k \in 1..Len(mem.bsr_row_ptr) : mem.bsr_row_ptr[k] # POISON
    /\ Csr2bsrDone =>
          LET nnzb == Cardinality(PopulatedBlocks)
              cells == nnzb * args.block_dim * args.block_dim
          IN /\ \A k \in 1..nnzb : mem.bsr_col_ind[k] # POISON
             /\ mem.bsr_col_ind[nnzb + 1] = POISON
             /\ \A o \in 1..cells : mem.bsr_val[o] # POISON
             /\ mem.bsr_val[cells + 1] = POISON

\* device pointer mode, two blocks of which one holds two entries, a last
\* block row that is cut by the matrix
C21_Witness ==
    /\ Csr2bsrNnzDone /\ entry = "csr2bsr_nnz"
    /\ handle.pointer_mode = rocsparse_pointer_mode_device
    /\ args.block_dim = 1 /\ args.m = 2 /\ args.pat = {<<0, 0>>, <<1, 1>>}
    /\ mem.scalar = 2 /\ Len(mem.bsr_row_ptr) = 3

C21_WitnessHost ==
    /\ Csr2bsrNnzDone /\ entry = "csr2bsr_nnz"
    /\ handle.pointer_mode = rocsparse_pointer_mode_host
    /\ args.block_dim = 2 /\ args.m = 2 /\ args.n = 2 /\ Cardinality(args.pat) = 2
    /\ mem.scalar = 1 /\ Len(mem.bsr_row_ptr) = 2

C21_WitnessFill ==
    /\ Csr2bsrDone /\ args.block_dim = 2 /\ args.m = 1 /\ args.n = 2
    /\ Cardinality(args.pat) = 2
    /\ Len(mem.bsr_val) = 5 /\ mem.bsr_val[5] = POISON /\ mem.bsr_val[3] = 0

(***************************************************************************)
(* C22: contract violations are reported before any device work            *)
(***************************************************************************)
ContractViolation ==
    {"invalid_handle", "invalid_pointer", "invalid_size", "invalid_value",
     "not_implemented", "arch_mismatch"}

\* nnz, csr2dense/csc2dense or nnz_compress has returned a contract violation
ContractViolationReturned ==
    /\ pc = "returned" /\ entry \in {"nnz", "nnz_compress"} \cup CsxEntries
    /\ status \in ContractViolation

\* C22: whenever nnz, csr2dense/csc2dense or nnz_compress returns a
\* contract-violation status, the call has issued no device operation (copy,
\* memset, kernel launch, allocation, free) and has written no output.
C22_NoDeviceWorkOnViolation == ContractViolationReturned => NoDeviceWork

\* the same for every status but arch_mismatch
C22_ExceptArchMismatch ==
    (ContractViolationReturned /\ status # "arch_mismatch") => NoDeviceWork

C22_NotImplementedReached ==
    /\ ContractViolationReturned /\ entry = "nnz" /\ status = "not_implemented"
    /\ Len(trace) = 1 /\ NoDeviceWork

\* arch_mismatch is returned after the copy of csr_row_ptr[m] to the host
C22_ArchMismatchAfterCopy ==
    (ContractViolationReturned /\ status = "arch_mismatch")
        => (Len(trace) = 1 /\ trace[1].op = "hipMemcpy" /\ trace[1].ok)

(***************************************************************************)
(* C23: the steps of a call that block the host                            *)
(***************************************************************************)
\* the device-runtime calls that return only when they are done
HostBlockingOps == {"hipMemcpy", "hipMalloc", "hipFree"}

\* positions of the trace that block the host
HostBlockingSteps == {k \in 1..Len(trace) : trace[k].op \in HostBlockingOps}

\* nnz, nnz_compress or csr2dense/csc2dense has returned
CoreReturned == pc = "returned" /\ entry \in {"nnz", "nnz_compress"} \cup CsxEntries

\* (a) the copy-out of the scalar result in host pointer mode
ScalarCopyOut(k) ==
    /\ trace[k].op = "hipMemcpy" /\ trace[k].dst = ScalarOutput(entry)
    /\ handle.pointer_mode = rocsparse_pointer_mode_host

\* (b) allocation or free of a temporary buffer
TemporaryBuffer(k) == trace[k].op \in {"hipMalloc", "hipFree"}

\* nnz_compress reading csr_row_ptr[m] into nnz_A, its first device operation
RowPtrRead(k) ==
    entry = "nnz_compress" /\ k = 1 /\ trace[k].op = "hipMemcpy" /\ trace[k].dst = "nnz_A"

\* C23 as stated: in device pointer mode no call blocks the host on a
\* synchronous copy; the only host-blocking steps of any call are (a) and (b).
C23_AsStated ==
    CoreReturned =>
        /\ handle.pointer_mode = rocsparse_pointer_mode_device
              => \A k \in 1..Len(trace) : trace[k].op # "hipMemcpy"
        /\ \A k \in HostBlockingSteps : ScalarCopyOut(k) \/ TemporaryBuffer(k)

\* C23 amended: the host-blocking steps of a call are (a), (b) and, in
\* nnz_compress in either pointer mode, the synchronous read of
\* csr_row_ptr[m]; in device pointer mode nnz and csr2dense/csc2dense make no
\* synchronous copy and nnz_compress makes that one only.
C23_HostBlockingSteps ==
    CoreReturned =>
        /\ handle.pointer_mode = rocsparse_pointer_mode_device
              => \A k \in 1..Len(trace) : trace[k].op = "hipMemcpy" => RowPtrRead(k)
        /\ \A k \in HostBlockingSteps :
              ScalarCopyOut(k) \/ TemporaryBuffer(k) \/ RowPtrRead(k)

\* a successful nnz call in device pointer mode that allocated its buffer
C23_Witness ==
    /\ CoreReturned /\ entry = "nnz" /\ status = "success"
    /\ handle.pointer_mode = rocsparse_pointer_mode_device
    /\ \E k \in 1..Len(trace) : trace[k].op = "hipMemcpyAsync" /\ trace[k].dst = "nnz_total"
    /\ \E k \in HostBlockingSteps : trace[k].op = "hipMalloc"

\* a successful nnz_compress call in device pointer mode
C23_WitnessCompress ==
    /\ CoreReturned /\ entry = "nnz_compress" /\ status = "success"
    /\ handle.pointer_mode = rocsparse_pointer_mode_device
    /\ Len(trace) > 3 /\ RowPtrRead(1)

(***************************************************************************)
(* C24: host pointer mode, the host thread against the handle's stream     *)
(***************************************************************************)
\* the host has returned from a call in host pointer mode
StreamCallDone == pc = "completed" /\ entry \in StreamEntries

\* C24: in host pointer mode, under every interleaving of the host with the
\* handle's stream, the caller's host total holds the result of the
\* reduction enqueued by the same call, and nnz_compress's read of
\* csr_row_ptr[m] sees the value produced by earlier work on that stream.
C24_CopyOutAfterReduction ==
    StreamCallDone =>
        /\ mem.total = args.count
        /\ entry = "nnz_compress_on_stream" => mem.nnz_A = args.nnz

\* the same on a handle whose stream is the null stream or a blocking stream
C24_OrderedWithNullStream ==
    (StreamCallDone /\ handle.stream # "non_blocking") =>
        /\ mem.total = args.count
        /\ entry = "nnz_compress_on_stream" => mem.nnz_A = args.nnz

\* a call on a blocking stream whose copy-out waited for the reduction
C24_WitnessOrdered ==
    /\ StreamCallDone /\ handle.stream = "blocking" /\ entry = "nnz_compress_on_stream"
    /\ args.earlier /\ mem.total = args.count /\ mem.nnz_A = args.nnz

\* on a non-blocking stream the copy-out can run before the reduction
C24_StaleTotalReached ==
    ~(StreamCallDone /\ entry = "nnz_on_stream" /\ handle.stream = "non_blocking"
      /\ mem.total = POISON /\ mem.queue # << >>)

\* on a non-blocking stream the read of csr_row_ptr[m] can run before its producer
C24_StaleRowPtrReached ==
    ~(StreamCallDone /\ entry = "nnz_compress_on_stream" /\ handle.stream = "non_blocking"
      /\ mem.nnz_A = POISON)

(***************************************************************************)
(* C25: failures of device-runtime calls                                   *)
(***************************************************************************)
\* positions of the trace at which the device runtime reported a failure
FailedCalls == {k \in 1..Len(trace) : ~trace[k].ok}

\* C25: whenever a device-runtime call made by nnz, nnz_compress or
\* csr2dense/csc2dense fails, the enclosing call returns a non-success status.
C25_FailurePropagates ==
    (CoreReturned /\ FailedCalls # {}) => status # "success"

\* the same for nnz and nnz_compress; in csr2dense/csc2dense the only call
\* that can fail is the zero-fill, after which the call goes on and succeeds
C25_OnlyZeroFillIgnored ==
    (CoreReturned /\ FailedCalls # {}) =>
        IF entry \in CsxEntries
        THEN /\ status = "success"
             /\ \A k \in FailedCalls : trace[k].op = "hipMemset2DAsync"
             /\ \E k \in 1..Len(trace) :
                    trace[k].op \in {"csr2dense_kernel", "csc2dense_kernel"}
        ELSE /\ status \in HipErrorStatus
             /\ FailedCalls = {Len(trace)}

\* a failed allocation in nnz is returned as its status
C25_PropagatedReached ==
    ~(CoreReturned /\ entry = "nnz" /\ status \in HipErrorStatus
      /\ \E k \in FailedCalls : trace[k].op = "hipMalloc")

(***************************************************************************)
(* C26: the temporary storage of the reduction in rocsparse_nnz_impl       *)
(***************************************************************************)
\* positions of the trace at which rocsparse_nnz_impl runs the reduction
NnzReductions == {k \in 1..Len(trace) : trace[k].op = "rocprim_reduce"}

\* byte length of the buffer in use: the handle's scratch buffer when it is
\* borrowed, else the size given to hipMalloc
NnzBufferLength(k) ==
    IF trace[k].dst = "handle_buffer" THEN handle.buffer_size
    ELSE LET a == CHOOSE j \in 1..k : trace[j].op = "hipMalloc" IN trace[a].bytes

\* C26: in rocsparse_nnz_impl the temporary-storage region handed to the
\* second reduction call, starting one rocsparse_int into the buffer and as
\* long as the byte size passed to the call, lies inside the buffer in use
\* and does not overlap the first rocsparse_int of the buffer.
C26_TempStorageInsideBuffer ==
    Returned("nnz") =>
        \A k \in NnzReductions :
            /\ nnz_temp_storage_offset >= SizeofInt
            /\ nnz_temp_storage_offset + trace[k].bytes <= NnzBufferLength(k)

\* the region starts after the first rocsparse_int and overruns the buffer
\* exactly when the buffer is shorter than the size passed plus one
\* rocsparse_int, which a buffer allocated in the call always is
C26_OverrunByOneInt ==
    Returned("nnz") =>
        \A k \in NnzReductions :
            /\ nnz_temp_storage_offset >= SizeofInt
            /\ trace[k].dst # "handle_buffer"
                  => nnz_temp_storage_offset + trace[k].bytes = NnzBufferLength(k) + SizeofInt
            /\ trace[k].dst = "handle_buffer"
                  => NnzBufferLength(k) >= trace[k].bytes

\* a borrowed scratch buffer with room for the region
C26_InsideReached ==
    ~(Returned("nnz") /\ status = "success"
      /\ \E k \in NnzReductions :
            /\ trace[k].dst = "handle_buffer"
            /\ nnz_temp_storage_offset + trace[k].bytes <= NnzBufferLength(k))

\* a borrowed scratch buffer the region overruns
C26_BorrowedOverrunReached ==
    ~(Returned("nnz") /\ status = "success"
      /\ \E k \in NnzReductions :
            /\ trace[k].dst = "handle_buffer"
            /\ nnz_temp_storage_offset + trace[k].bytes > NnzBufferLength(k))

(***************************************************************************)
(* C27: nnz_A and the index base                                           *)
(***************************************************************************)
\* a nnz_compress call that launched its counting kernel
NnzCompressLaunched ==
    /\ Returned("nnz_compress") /\ NnzCompressReadsBuffers(args)
    /\ KernelLaunches # {}

\* the number of stored entries, csr_row_ptr[m] - csr_row_ptr[0]
StoredEntries == mem.csr_row_ptr_A[args.m + 1] - mem.csr_row_ptr_A[1]

\* the value the call reads into nnz_A
NnzA == mem.csr_row_ptr_A[args.m + 1]

\* C27: the nnz_A used for the mean equals the number of stored entries for
\* index base 0 and 1, so the kernel variant launched is the one the mean of
\* the stored entries selects, whatever the index base.
C27_NnzAIsStoredEntries ==
    NnzCompressLaunched =>
        /\ NnzA = StoredEntries
        /\ \A k \in KernelLaunches :
              trace[k].seg = segment_size(handle.wavefront_size,
                                          CDiv(StoredEntries, args.m))

\* nnz_A is the number of stored entries plus the index base, and the
\* variant launched is the one selected by the mean of that sum
C27_NnzAIncludesBase ==
    NnzCompressLaunched =>
        /\ StoredEntries = Len(mem.csr_val_A)
        /\ NnzA = StoredEntries + mem.descr.base
        /\ \A k \in KernelLaunches :
              trace[k].seg = segment_size(handle.wavefront_size,
                                          CDiv(StoredEntries + mem.descr.base, args.m))

\* one row of 7 entries with index base 1 is given segments of 8 lanes
C27_BaseOneVariantReached ==
    ~(NnzCompressLaunched /\ args.m = 1 /\ StoredEntries = 7 /\ mem.descr.base = 1
      /\ handle.wavefront_size = 64 /\ \E k \in KernelLaunches : trace[k].seg = 8)

\* the same row with index base 0 is given segments of 4 lanes
C27_BaseZeroVariantReached ==
    ~(NnzCompressLaunched /\ args.m = 1 /\ StoredEntries = 7 /\ mem.descr.base = 0
      /\ handle.wavefront_size = 64 /\ \E k \in KernelLaunches : trace[k].seg = 4)

(***************************************************************************)
(* C28: the kernel variant and the grid of rocsparse_nnz_compress_template *)
(***************************************************************************)
\* a nnz_compress call on m >= 1 rows with wavefront width 32 or 64 whose
\* read of csr_row_ptr[m] succeeded
NnzCompressDispatched ==
    /\ Returned("nnz_compress") /\ NnzCompressReadsBuffers(args)
    /\ handle.wavefront_size \in {32, 64}
    /\ Len(trace) >= 1 /\ trace[1].ok

\* ceil(m / rows), rows the number of rows one block handles
RowsPerBlock(s) == 1024 \div s

\* C28: for every m >= 1, every mean >= 0 and W in {32, 64} exactly one
\* kernel variant is launched; its segment size s is a power of two with
\* 2 <= s <= W and is non-decreasing in the mean; the grid size is
\* ceil(m / (1024 / s)), so grid_size * (1024 / s) >= m.
C28_VariantAndGrid ==
    NnzCompressDispatched =>
        /\ Cardinality(KernelLaunches) = 1
        /\ \A k \in KernelLaunches :
             LET s == trace[k].seg
                 g == trace[k].grid
             IN /\ s \in PowersOfTwo /\ 2 <= s /\ s <= handle.wavefront_size
                /\ \A mean \in 0..(MaxNnz + 1) :
                      /\ mean <= MeanNnzPerRow
                            => segment_size(handle.wavefront_size, mean) <= s
                      /\ mean >= MeanNnzPerRow
                            => segment_size(handle.wavefront_size, mean) >= s
                /\ g = CeilDiv(args.m, RowsPerBlock(s))
                /\ g * RowsPerBlock(s) >= args.m
                /\ (g - 1) * RowsPerBlock(s) < args.m

\* more rows than one block of 64-lane segments holds: a grid of two blocks
C28_Witness ==
    /\ NnzCompressDispatched /\ status = "success" /\ args.m > 16
    /\ \E k \in KernelLaunches : trace[k].seg = 64 /\ trace[k].grid = 2

\* the same matrix on wavefront width 32: segments of 32 lanes, one block
C28_WitnessCapped ==
    /\ NnzCompressDispatched /\ status = "success" /\ args.m > 16
    /\ handle.wavefront_size = 32 /\ MeanNnzPerRow = 64
    /\ \E k \in KernelLaunches : trace[k].seg = 32 /\ trace[k].grid = 1

\* a small mean: segments of 2 lanes
C28_WitnessSmall ==
    /\ NnzCompressDispatched /\ status = "success" /\ MeanNnzPerRow = 0
    /\ \E k \in KernelLaunches : trace[k].seg = 2 /\ trace[k].grid = 1

(***************************************************************************)
(* C29: the padding of the dense buffer and the grid of csr2dense/csc2dense *)
(***************************************************************************)
\* positions of A inside the m x n logical part
LogicalPart ==
    {DenseIdx(i, j, args.lda) : i \in 0..(args.m - 1), j \in 0..(args.n - 1)}

\* the zero-fill was issued and accepted by the device runtime
FillAccepted ==
    \E k \in 1..Len(trace) : trace[k].op = "hipMemset2DAsync" /\ trace[k].ok

CsxLaunches ==
    {k \in 1..Len(trace) : trace[k].op \in {"csr2dense_kernel", "csc2dense_kernel"}}

\* number of rows (csr2dense) or columns (csc2dense)
CsxMajor == IF entry = "csr2dense" THEN args.m ELSE args.n

\* C29: a successful rocsparse_csx2dense_impl call with lda > m changes only
\* the m x n logical part of A: the padding elements of every column keep
\* their previous contents, the zero-fill covers the m elements of each of
\* the n columns, and the launch uses ceil(m/16) blocks (csr2dense) or
\* ceil(n/16) blocks (csc2dense) of 16 * 64 threads, which cover every row
\* or column.
C29_PaddingUntouched ==
    (CsxSucceeded /\ args.lda > args.m) =>
        /\ \A k \in 1..Len(mem.A) : k \notin LogicalPart => mem.A[k] = PAD
        /\ FillAccepted => DenseIsCompressed
        /\ Cardinality(CsxLaunches) = 1
        /\ \A k \in CsxLaunches :
              /\ trace[k].op = (IF entry = "csr2dense" THEN "csr2dense_kernel"
                                ELSE "csc2dense_kernel")
              /\ trace[k].grid = CeilDiv(CsxMajor, NROWS_PER_BLOCK)
              /\ trace[k].seg = WAVEFRONT_SIZE
              /\ trace[k].grid * NROWS_PER_BLOCK >= CsxMajor

\* 17 rows into a buffer with lda = 18: two blocks, the entry of the last
\* row written, the padding element kept
C29_Witness ==
    /\ CsxSucceeded /\ entry = "csr2dense" /\ args.m > NROWS_PER_BLOCK
    /\ args.lda = args.m + 1
    /\ mem.A[args.m] = mem.csx_val[2] /\ mem.A[args.m + 1] = PAD /\ mem.A[2] = 0
    /\ \E k \in CsxLaunches : trace[k].grid = 2

\* 17 columns into a buffer with lda = 2: two blocks, padding after every column
C29_WitnessColumns ==
    /\ CsxSucceeded /\ entry = "csc2dense" /\ args.n > NROWS_PER_BLOCK
    /\ args.lda = 2
    /\ \A j \in 1..args.n : mem.A[2 * j] = PAD
    /\ mem.A[2 * args.n - 1] = mem.csx_val[2]
    /\ \E k \in CsxLaunches : trace[k].grid = 2

\* a small matrix with two padding elements per column
C29_WitnessSmall ==
    /\ CsxSucceeded /\ args.m = 1 /\ args.n = 2 /\ args.lda = 3 /\ FillAccepted
    /\ Len(mem.csx_val) = 1 /\ mem.A[2] = PAD /\ mem.A[3] = PAD

(***************************************************************************)
(* C30: the accesses of the lanes of csr2csc_permute_kernel                 *)
(***************************************************************************)
\* the kernel is running or has completed
PermuteRunning == entry = "csr2csc_permute"

\* what the kernel leaves in out1 / out2 at position g, whatever the order
\* of its lanes: the gathered entry for a lane launched below nnz, the
\* previous contents elsewhere
PermuteResult1(g) ==
    IF g < args.nnz /\ g < args.lanes THEN args.in1[args.map[g + 1] + 1] ELSE POISON
PermuteResult2(g) ==
    IF g < args.nnz /\ g < args.lanes THEN 5 + args.in1[args.map[g + 1] + 1] ELSE POISON

\* C30: for every nnz >= 0, every grid size and every interleaving of lanes,
\* the lane with global id g writes only out1[g] and out2[g], lanes with
\* g >= nnz read and write nothing, no two lanes write the same location,
\* in1, in2 and map are never written, and the final contents of out1 and
\* out2 do not depend on the order in which the lanes run.
C30_LaneAccesses ==
    PermuteRunning =>
        /\ \A w \in mem.writes : w[2] \in {"out1", "out2"} /\ w[3] = w[1]
        /\ \A x \in mem.reads \cup mem.writes : x[1] < args.nnz
        /\ \A w \in mem.writes, v \in mem.writes :
              (w[2] = v[2] /\ w[3] = v[3]) => w[1] = v[1]
        /\ mem.in1 = args.in1 /\ mem.map = args.map
        /\ mem.in2 = [k \in 1..args.nnz |-> 5 + args.in1[k]]
        /\ pc = "completed" =>
              \A g \in 0..MaxLanes :
                  /\ mem.out1[g + 1] = PermuteResult1(g)
                  /\ mem.out2[g + 1] = PermuteResult2(g)

\* two lanes below nnz with the same source and a third lane at nnz: both
\* have stored at their own ids, the third has touched nothing
C30_Witness ==
    /\ PermuteDone /\ args.nnz = 2 /\ args.lanes = 3 /\ args.map = <<1, 1>>
    /\ mem.writes = {<<0, "out1", 0>>, <<0, "out2", 0>>, <<1, "out1", 1>>, <<1, "out2", 1>>}
    /\ mem.out1[3] = POISON /\ mem.out2[3] = POISON

\* lane 1 has stored out1 while lane 0 has not started
C30_WitnessInterleaved ==
    /\ PermuteRunning /\ pc = "call" /\ args.nnz = 2 /\ args.lanes >= 2
    /\ mem.lane[0] = "start" /\ mem.lane[1] = "stored1"

\* fewer lanes than entries
C30_WitnessShortGrid ==
    /\ PermuteDone /\ args.nnz = 2 /\ args.lanes = 1
    /\ mem.out1[1] # POISON /\ mem.out1[2] = POISON

====
